---- MODULE Spec2Model ----
(***************************************************************************)
(* coveo::lazy -- lazily sorted associative containers (set, multiset,     *)
(* map, multimap) over a flat backing sequence.                            *)
(*                                                                         *)
(* The model follows lib/coveo/lazy/detail/lazy_sorted_container.h: a      *)
(* container object is the pair (elements_, sorted_); every public method  *)
(* is an operator from a container value to the set of its possible        *)
(* outcomes, and one action applies it.  The standard algorithms the       *)
(* methods call (std::lower_bound, std::upper_bound, std::equal_range,     *)
(* std::stable_sort, std::sort, std::unique) are modelled by what they     *)
(* compute; std::sort, whose order among equivalent elements is            *)
(* unspecified, yields every sorted permutation.                           *)
(***************************************************************************)
EXTENDS Integers, Sequences, FiniteSets, TLC

\* Largest number of elements a backing sequence holds in the model.
MaxLen == 3

\* The container objects: 1 is `this', 2 the other operand (`obj', `right').
Objs == {1, 2}
\* key_type values (int under std::less<int>).
Keys == {1, 2, 3}
\* mapped_type values; 0 is the value-initialised T().
Vals == {0, 1}

VARIABLES
    Multi,      \* template parameter Multi: duplicates allowed
    IsMap,      \* template parameter T is not void: elements are (key, mapped) pairs
    elements_,  \* elements_[c]: backing sequence of container object c
    sorted_,    \* sorted_[c]: the flag of container object c
    op,         \* the public call made last: [name, obj, key, val]
    ret,        \* what that call returned: [first, second, flag, threw]
    pre,        \* ghost: the flag and length of the called object(s) before that call
    ref,        \* ghost: an eagerly sorted reference container (SpecRef only)
    thr,        \* thr[t]: where thread t stands in the call it is making
    lock        \* the caller's reader-writer lock: [writer, readers]

vars == <<Multi, IsMap, elements_, sorted_, op, ret, pre, ref, thr, lock>>

----------------------------------------------------------------------------
(* Elements, keys and predicates                                           *)

\* _IsNonMultiMap: at, operator[], insert_or_assign, try_emplace exist only then.
IsNonMultiMap == IsMap /\ ~Multi

\* The mapped values an element of this variant can carry (none for sets).
Mapped == IF IsMap THEN Vals ELSE {0}

\* A stored element.  `first' is the key, `second' the mapped value (0 for
\* sets).  `seq' is a ghost the program does not store: for multi variants
\* the rank of the element among the stored elements with the same key, in
\* order of insertion (0 for non-multi variants).
Element(k, v, s) == [first |-> k, second |-> v, seq |-> s]

\* std::less<K>
KCmp(a, b) == a < b

\* KEq: equal_to_using_less_if_needed<K, _Cmp>, std::equal_to<int> for int keys.
KEq(a, b) == a = b

\* identity<K> / pair_first<P>
vtok_(e) == e.first

\* value_compare: lazy_value_pred_proxy over KCmp, on two stored values.
vcmp_(l, r) == KCmp(vtok_(l), vtok_(r))

\* value_equal_to: lazy_value_pred_proxy over KEq.
veq_(l, r) == KEq(vtok_(l), vtok_(r))

\* Equality of two public values (operator== of K or of std::pair<const K, T>).
ValueEq(l, r) == l.first = r.first /\ l.second = r.second

\* operator< of K or of std::pair<const K, T>.
ValueLess(l, r) == l.first < r.first \/ (l.first = r.first /\ l.second < r.second)

\* A container value.
Cont(es, sd) == [elements |-> es, sorted |-> sd]

\* The outcome of a call: the container afterwards and the value returned.
Out(c, r) == [elements |-> c.elements, sorted |-> c.sorted, ret |-> r]

\* A returned value: positions, counts and mapped values in `first' and
\* `second', a returned bool in `flag'.
Ret(a, b) == [first |-> a, second |-> b, flag |-> FALSE, threw |-> FALSE]

RetB(a, f) == [first |-> a, second |-> 0, flag |-> f, threw |-> FALSE]

\* A call that returns nothing.
Void == Ret(0, 0)

\* coveo::lazy::out_of_range leaving the call.
Threw == [first |-> 0, second |-> 0, flag |-> FALSE, threw |-> TRUE]

\* The past-the-end position of a sequence (positions are 1-based).
End(es) == Len(es) + 1

----------------------------------------------------------------------------
(* Sequence primitives of the backing container                            *)

\* Ghost: the rank the next element with key k gets.
NextSeq(es, k) ==
    IF Multi THEN Cardinality({i \in 1..Len(es) : es[i].first = k}) + 1 ELSE 0

\* container_impl::push_back / emplace_back
push_back(es, k, v) == Append(es, Element(k, v, NextSeq(es, k)))

RECURSIVE push_back_range(_, _)
\* container_impl::insert(cend(), first, last): rng is a sequence of <<k, v>>.
push_back_range(es, rng) ==
    IF rng = <<>> THEN es
    ELSE push_back_range(push_back(es, rng[1][1], rng[1][2]), Tail(rng))

\* Ghost: close the gap an erased element leaves in the ranks of its key.
Rerank(es, x) ==
    [i \in 1..Len(es) |->
        IF es[i].first = x.first /\ es[i].seq > x.seq
        THEN [es[i] EXCEPT !.seq = @ - 1] ELSE es[i]]

\* container_impl::erase(pos)
erase_at(es, pos) ==
    Rerank(SubSeq(es, 1, pos - 1) \o SubSeq(es, pos + 1, Len(es)), es[pos])

RECURSIVE erase_between(_, _, _)
\* container_impl::erase(first, last): removes positions first .. last-1.
erase_between(es, first, last) ==
    IF first >= last THEN es
    ELSE erase_between(erase_at(es, last - 1), first, last - 1)

\* container_impl::emplace(pos, ...): insert before position pos.
emplace_at(es, pos, k, v) ==
    SubSeq(es, 1, pos - 1) \o <<Element(k, v, NextSeq(es, k))>> \o SubSeq(es, pos, Len(es))

----------------------------------------------------------------------------
(* Standard algorithms                                                     *)

RECURSIVE lower_bound_loop(_, _, _, _)
lower_bound_loop(es, first, len, key) ==
    IF len > 0
    THEN LET half == len \div 2
             mid  == first + half
         IN  IF KCmp(vtok_(es[mid]), key)
             THEN lower_bound_loop(es, mid + 1, len - half - 1, key)
             ELSE lower_bound_loop(es, first, half, key)
    ELSE first

\* std::lower_bound(first, last, key, vcmp_) over positions first .. last-1.
std_lower_bound(es, first, last, key) == lower_bound_loop(es, first, last - first, key)

RECURSIVE upper_bound_loop(_, _, _, _)
\* Mutation: std::upper_bound stops at the first element not less than key.
upper_bound_as_lower(es, first, last, key) == std_lower_bound(es, first, last, key)

upper_bound_loop(es, first, len, key) ==
    IF len > 0
    THEN LET half == len \div 2
             mid  == first + half
         IN  IF KCmp(key, vtok_(es[mid]))
             THEN upper_bound_loop(es, first, half, key)
             ELSE upper_bound_loop(es, mid + 1, len - half - 1, key)
    ELSE first

\* std::upper_bound(first, last, key, vcmp_)
std_upper_bound(es, first, last, key) == upper_bound_loop(es, first, last - first, key)

RECURSIVE equal_range_loop(_, _, _, _)
equal_range_loop(es, first, len, key) ==
    IF len > 0
    THEN LET half == len \div 2
             mid  == first + half
         IN  IF KCmp(vtok_(es[mid]), key)
             THEN equal_range_loop(es, mid + 1, len - half - 1, key)
             ELSE IF KCmp(key, vtok_(es[mid]))
             THEN equal_range_loop(es, first, half, key)
             ELSE <<std_lower_bound(es, first, mid, key),
                    std_upper_bound(es, mid + 1, first + len, key)>>
    ELSE <<first, first>>

\* std::equal_range(first, last, key, vcmp_)
std_equal_range(es, first, last, key) == equal_range_loop(es, first, last - first, key)

\* es without the element at position i (no ghost bookkeeping).
Without(es, i) == SubSeq(es, 1, i - 1) \o SubSeq(es, i + 1, Len(es))

RECURSIVE std_sort(_)
\* std::sort(begin, end, vcmp_): the order of equivalent elements is
\* unspecified, so every ordered arrangement of es is an outcome: any of the
\* elements no other is less than comes first, then the rest likewise.
std_sort(es) ==
    IF es = <<>> THEN {<<>>}
    ELSE UNION {{<<es[i]>> \o t : t \in std_sort(Without(es, i))} :
                i \in {m \in 1..Len(es) : \A j \in 1..Len(es) : ~vcmp_(es[j], es[m])}}

RECURSIVE insert_sorted(_, _)
\* Put x after every element of the sorted sequence s that is not greater than x.
insert_sorted(s, x) ==
    IF s = <<>> THEN <<x>>
    ELSE IF vcmp_(x, s[1]) THEN <<x>> \o s
    ELSE <<s[1]>> \o insert_sorted(Tail(s), x)

RECURSIVE stable_sort_from(_, _)
stable_sort_from(done, rest) ==
    IF rest = <<>> THEN done
    ELSE stable_sort_from(insert_sorted(done, rest[1]), Tail(rest))

\* x put in the sequence s, which is in the order of operator< of the
\* values, after every element not greater than it.
insert_by_value(s, x) ==
    LET n == Cardinality({i \in 1..Len(s) : ~ValueLess(x, s[i])})
    IN  SubSeq(s, 1, n) \o <<x>> \o SubSeq(s, n + 1, Len(s))

RECURSIVE sort_by_value_from(_, _)
sort_by_value_from(acc, es) ==
    IF es = <<>> THEN acc ELSE sort_by_value_from(insert_by_value(acc, es[1]), Tail(es))

\* Mutation: a stable sort under operator< of the values, mapped value
\* included, where the code sorts under the key comparison.
stable_sort_by_value(es) == sort_by_value_from(<<>>, es)

\* Mutation: a sort that reverses the order of equivalent elements.
stable_sort_ties_reversed(es) ==
    stable_sort_from(<<>>, [i \in 1..Len(es) |-> es[Len(es) + 1 - i]])

\* std::stable_sort(begin, end, vcmp_): equivalent elements keep their order.
std_stable_sort(es) == stable_sort_from(<<>>, es)

\* Mutation: every element whose key is held more than once is removed.
unique_drops_repeated(es) ==
    SelectSeq(es, LAMBDA x : Cardinality({i \in 1..Len(es) : veq_(es[i], x)}) = 1)

\* Mutation: duplicates are never removed.
unique_none(es) == es

RECURSIVE std_unique(_)
\* erase(std::unique(begin, end, veq_), end): of each run of consecutive
\* elements with equal keys only the first stays.
std_unique(es) ==
    IF Len(es) <= 1 THEN es
    ELSE IF veq_(es[1], es[2]) THEN std_unique(<<es[1]>> \o SubSeq(es, 3, Len(es)))
    ELSE <<es[1]>> \o std_unique(Tail(es))

----------------------------------------------------------------------------
(* lazy_sorted_container: the sort protocol                                *)

\* Mutation: a stable sort for set and map, so that of the elements with one
\* key the first inserted stays.
sort_stable_then_unique(es) == {IF Multi THEN std_stable_sort(es) ELSE std_unique(std_stable_sort(es))}

\* Mutation: sort then unique for every variant.
sort_then_unique_always(es) == {std_unique(s) : s \in std_sort(es)}

\* Mutation: std::sort for the multi variants as well.
sort_unstable(es) ==
    IF Multi THEN std_sort(es)
    ELSE {std_unique(s) : s \in std_sort(es)}

\* sort_lazy_container_elements<Multi>: stable_sort for multi variants,
\* sort then unique for the others.
sort_lazy_container_elements(es) ==
    IF Multi THEN {std_stable_sort(es)}
    ELSE {std_unique(s) : s \in std_sort(es)}

\* Mutation: internal_sort without `sorted_ = true'.
internal_sort_flag_unset(c) ==
    {Cont(s, c.sorted) : s \in sort_lazy_container_elements(c.elements)}

internal_sort(c) == {Cont(s, TRUE) : s \in sort_lazy_container_elements(c.elements)}

\* Mutation: sort_if_needed sorts whatever the flag.
needs_sort_always(c) == TRUE

\* Mutation: sort_if_needed with the test inverted.
needs_sort_inverted(c) == c.sorted

\* The test of sort_if_needed: if (!sorted_)
needs_sort(c) == ~c.sorted

sort_if_needed(c) == IF needs_sort(c) THEN internal_sort(c) ELSE {c}

\* Mutation: the helper sorts for the multi variants as well.
sort_if_needed_whatever_multi(c) == sort_if_needed(c)

\* sort_lazy_container_if_needed_and_not_multi<Multi>
sort_lazy_container_if_needed_and_not_multi(c) ==
    IF Multi THEN {c} ELSE sort_if_needed(c)

\* Mutation: the non-multi test (the previous strictly less) for every variant.
flag_after_insert_strict(es) ==
    LET n == Len(es)
    IN  vcmp_(es[n - 1], es[n])

\* Mutation: the multi test (not less than the previous) for every variant.
flag_after_insert_nonstrict(es) ==
    LET n == Len(es)
    IN  ~vcmp_(es[n], es[n - 1])

\* updated_lazy_container_sorted_flag_after_insert<Multi>: the new flag, from
\* the last element and the one before it.
updated_lazy_container_sorted_flag_after_insert(es) ==
    LET n == Len(es)
    IN  IF Multi THEN ~vcmp_(es[n], es[n - 1]) ELSE vcmp_(es[n - 1], es[n])

\* Mutation: the flag is kept only when there is a previous element in order.
update_sorted_needs_previous(c) ==
    Cont(c.elements,
         Len(c.elements) > 1 /\ updated_lazy_container_sorted_flag_after_insert(c.elements))

\* Mutation: any append to a container that holds an element clears the flag.
update_sorted_cleared(c) ==
    IF Len(c.elements) > 1 THEN Cont(c.elements, FALSE) ELSE c

update_sorted_after_push_back(c) ==
    IF Len(c.elements) > 1
    THEN Cont(c.elements, updated_lazy_container_sorted_flag_after_insert(c.elements))
    ELSE c

----------------------------------------------------------------------------
(* lazy_sorted_container: the public methods, each from a container value  *)
(* to the set of its outcomes                                              *)

\* Mutation: insert sorts a Dirty container before it appends.
insert_after_sort(c, k, v) ==
    {Out(update_sorted_after_push_back(Cont(push_back(s.elements, k, v), s.sorted)), Void) :
        s \in sort_if_needed(c)}

\* Mutation: insert updates the flag whether it was set or not.
insert_updating_always(c, k, v) ==
    {Out(update_sorted_after_push_back(Cont(push_back(c.elements, k, v), c.sorted)), Void)}

\* insert(const value_type&), insert(value_type&&), emplace(args...)
insert(c, k, v) ==
    LET c1 == Cont(push_back(c.elements, k, v), c.sorted)
    IN  {Out(IF c.sorted THEN update_sorted_after_push_back(c1) ELSE c1, Void)}

\* Mutation: insert(hint, value) puts the value before the hint position.
insert_at_hint(c, hint, k, v) ==
    {Out(Cont(emplace_at(c.elements, hint, k, v), c.sorted), Void)}

\* insert(const_iterator hint, const value_type&), insert(hint, value_type&&):
\* the hint is discarded.
insert_hint(c, hint, k, v) == insert(c, k, v)

\* emplace_hint(const_iterator hint, args...): emplace(args...).
emplace_hint(c, hint, k, v) == insert(c, k, v)

\* insert_iterator::operator=(value) of an adapter made for the container c
\* (pc_ points at c): pc_->insert(value).
inserter_assign(c, k, v) == insert(c, k, v)

\* insert_iterator::operator*(), operator++(), operator++(int): return *this.
inserter_noop(c) == {Out(c, Void)}

\* Mutation: a bulk insert of nothing leaves the flag as it is.
insert_range_empty_kept(c, rng) ==
    LET es == push_back_range(c.elements, rng)
    IN  {Out(Cont(es, IF rng = <<>> THEN c.sorted ELSE Len(es) <= 1), Void)}

\* insert(first, last), insert(initializer_list)
insert_range(c, rng) ==
    LET es == push_back_range(c.elements, rng)
    IN  {Out(Cont(es, Len(es) <= 1), Void)}

\* operator=(initializer_list)
assign_init(c, rng) ==
    LET es == push_back_range(<<>>, rng)
    IN  {Out(Cont(es, Len(es) <= 1), Void)}

\* Mutation: the range constructor flags a source that is in key order.
construct_range_ordered(rng) ==
    LET es == push_back_range(<<>>, rng)
    IN  {Out(Cont(es, \A i \in 1..(Len(es) - 1) : vcmp_(es[i], es[i + 1])), Void)}

\* lazy_sorted_container(first, last, ...), lazy_sorted_container(initializer_list, ...)
construct_range(rng) ==
    LET es == push_back_range(<<>>, rng)
    IN  {Out(Cont(es, Len(es) <= 1), Void)}

\* Mutation: erase(pos) sorts a Dirty container first.
erase_pos_after_sort(c, pos) ==
    {Out(Cont(erase_at(s.elements, pos), s.sorted), Ret(pos, 0)) : s \in sort_if_needed(c)}

\* erase(const_iterator pos): returns the position after the erased element.
erase_pos(c, pos) == {Out(Cont(erase_at(c.elements, pos), c.sorted), Ret(pos, 0))}

\* Mutation: erase(first, last) sets the flag as a bulk insert does.
erase_range_flag_reset(c, first, last) ==
    LET es == erase_between(c.elements, first, last)
    IN  {Out(Cont(es, Len(es) <= 1), Ret(first, 0))}

\* erase(const_iterator first, const_iterator last)
erase_range(c, first, last) ==
    {Out(Cont(erase_between(c.elements, first, last), c.sorted), Ret(first, 0))}

\* Mutation: equal_range(key) without sort_if_needed.
equal_range_dirty(c, key) ==
    {Out(c, LET r == std_equal_range(c.elements, 1, End(c.elements), key)
            IN  Ret(r[1], r[2]))}

\* equal_range(key): <<first, second>> positions.
equal_range(c, key) ==
    {Out(s, LET r == std_equal_range(s.elements, 1, End(s.elements), key)
            IN  Ret(r[1], r[2])) : s \in sort_if_needed(c)}

\* Mutation: erase(key) erases the first element of the range only.
erase_key_first_only(c, key) ==
    UNION {LET dist == o.ret.second - o.ret.first
           IN  {Out(e, Ret(dist, 0)) :
                   e \in erase_range(Cont(o.elements, o.sorted), o.ret.first,
                                     IF dist > 0 THEN o.ret.first + 1 ELSE o.ret.first)}
           : o \in equal_range(c, key)}

\* erase(const key_type&): returns the number of elements erased.
erase_key(c, key) ==
    UNION {LET dist == o.ret.second - o.ret.first
           IN  {Out(e, Ret(dist, 0)) :
                   e \in erase_range(Cont(o.elements, o.sorted), o.ret.first, o.ret.second)}
           : o \in equal_range(c, key)}

\* Mutation: clear() without `sorted_ = true'.
clear_flag_kept(c) == {Out(Cont(<<>>, c.sorted), Void)}

\* clear()
clear(c) == {Out(Cont(<<>>, TRUE), Void)}

\* Mutation: count(key) counts over the backing sequence as it stands.
count_backing(c, key) ==
    {Out(c, Ret(Cardinality({i \in 1..Len(c.elements) : vtok_(c.elements[i]) = key}), 0))}

\* count(key)
count(c, key) ==
    {Out(o, Ret(o.ret.second - o.ret.first, 0)) : o \in equal_range(c, key)}

\* Mutation: find(key) without sort_if_needed().
find_unsorted(c, key) ==
    {LET elem_end == End(c.elements)
         it == std_lower_bound(c.elements, 1, elem_end, key)
     IN  Out(c, Ret(IF it # elem_end /\ ~KCmp(key, vtok_(c.elements[it]))
                    THEN it ELSE elem_end, 0))}

\* find(key): the position found, End when there is none.
find(c, key) ==
    {LET elem_end == End(s.elements)
         it == std_lower_bound(s.elements, 1, elem_end, key)
     IN  Out(s, Ret(IF it # elem_end /\ ~KCmp(key, vtok_(s.elements[it]))
                    THEN it ELSE elem_end, 0))
     : s \in sort_if_needed(c)}

\* lower_bound(key)
lower_bound(c, key) ==
    {Out(s, Ret(std_lower_bound(s.elements, 1, End(s.elements), key), 0))
     : s \in sort_if_needed(c)}

\* upper_bound(key)
upper_bound(c, key) ==
    {Out(s, Ret(std_upper_bound(s.elements, 1, End(s.elements), key), 0))
     : s \in sort_if_needed(c)}

\* begin(), cbegin(): the first position (rbegin/crbegin likewise sort first).
begin(c) == {Out(s, Ret(1, 0)) : s \in sort_if_needed(c)}

\* end(), cend(): the past-the-end position (rend/crend likewise sort first).
end_(c) == {Out(s, Ret(End(s.elements), 0)) : s \in sort_if_needed(c)}

\* size()
size(c) ==
    {Out(s, Ret(Len(s.elements), 0)) : s \in sort_lazy_container_if_needed_and_not_multi(c)}

\* max_size(): elements_.max_size(), the most elements the backing vector
\* can hold (MaxLen in this model).
max_size(c) == {Out(c, Ret(MaxLen, 0))}

\* empty()
empty(c) == {Out(c, RetB(0, c.elements = <<>>))}

\* sorted()
sorted(c) == {Out(c, RetB(0, c.sorted))}

\* Mutation: sort() does nothing.
sort_nothing(c) == {Out(c, Void)}

\* sort()
sort(c) == {Out(s, Void) : s \in sort_if_needed(c)}

\* Mutation: at(key) emplaces a default value where it would throw.
at_inserting(c, key) ==
    {LET elem_end == End(s.elements)
         it == std_lower_bound(s.elements, 1, elem_end, key)
     IN  IF it = elem_end \/ KCmp(key, vtok_(s.elements[it]))
         THEN Out(Cont(emplace_at(s.elements, it, key, 0), s.sorted), Ret(0, it))
         ELSE Out(s, Ret(s.elements[it].second, it))
     : s \in sort_if_needed(c)}

\* at(key): the mapped value, or out_of_range.
at(c, key) ==
    {LET elem_end == End(s.elements)
         it == std_lower_bound(s.elements, 1, elem_end, key)
     IN  IF it = elem_end \/ KCmp(key, vtok_(s.elements[it]))
         THEN Out(s, Threw)
         ELSE Out(s, Ret(s.elements[it].second, it))
     : s \in sort_if_needed(c)}

\* Mutation: operator[] appends the new element instead of emplacing it at
\* the lower bound.
brackets_at_end(c, key) ==
    {LET elem_end == End(s.elements)
         it == std_lower_bound(s.elements, 1, elem_end, key)
     IN  IF it = elem_end \/ KCmp(key, vtok_(s.elements[it]))
         THEN Out(Cont(push_back(s.elements, key, 0), s.sorted), Ret(0, elem_end))
         ELSE Out(s, Ret(s.elements[it].second, it))
     : s \in sort_if_needed(c)}

\* operator[](key) through operator_brackets_impl: the mapped value (and, in
\* `second', the position of the element the returned reference is into).
operator_brackets_impl(c, key) ==
    {LET elem_end == End(s.elements)
         it == std_lower_bound(s.elements, 1, elem_end, key)
     IN  IF it = elem_end \/ KCmp(key, vtok_(s.elements[it]))
         THEN Out(Cont(emplace_at(s.elements, it, key, 0), s.sorted), Ret(0, it))
         ELSE Out(s, Ret(s.elements[it].second, it))
     : s \in sort_if_needed(c)}

\* Mutation: insert_or_assign leaves the mapped value of a present key.
insert_or_assign_unassigned(c, key, val) ==
    {LET elem_end == End(s.elements)
         it == std_lower_bound(s.elements, 1, elem_end, key)
         inserted == (it = elem_end \/ KCmp(key, vtok_(s.elements[it])))
     IN  IF inserted
         THEN Out(Cont(emplace_at(s.elements, it, key, val), s.sorted), RetB(it, inserted))
         ELSE Out(s, RetB(it, inserted))
     : s \in sort_if_needed(c)}

\* insert_or_assign(key, val) through insert_or_assign_impl: <<position, inserted>>.
insert_or_assign_impl(c, key, val) ==
    {LET elem_end == End(s.elements)
         it == std_lower_bound(s.elements, 1, elem_end, key)
         inserted == (it = elem_end \/ KCmp(key, vtok_(s.elements[it])))
     IN  IF inserted
         THEN Out(Cont(emplace_at(s.elements, it, key, val), s.sorted), RetB(it, inserted))
         ELSE Out(Cont([s.elements EXCEPT ![it].second = val], s.sorted), RetB(it, inserted))
     : s \in sort_if_needed(c)}

\* Mutation: try_emplace overwrites the mapped value of a present key.
try_emplace_overwriting(c, key, val) ==
    {LET elem_end == End(s.elements)
         it == std_lower_bound(s.elements, 1, elem_end, key)
         emplaced == (it = elem_end \/ KCmp(key, vtok_(s.elements[it])))
     IN  IF emplaced
         THEN Out(Cont(emplace_at(s.elements, it, key, val), s.sorted), RetB(it, emplaced))
         ELSE Out(Cont([s.elements EXCEPT ![it].second = val], s.sorted), RetB(it, emplaced))
     : s \in sort_if_needed(c)}

\* try_emplace(key, args...) through try_emplace_impl: <<position, emplaced>>.
try_emplace_impl(c, key, val) ==
    {LET elem_end == End(s.elements)
         it == std_lower_bound(s.elements, 1, elem_end, key)
         emplaced == (it = elem_end \/ KCmp(key, vtok_(s.elements[it])))
     IN  IF emplaced
         THEN Out(Cont(emplace_at(s.elements, it, key, val), s.sorted), RetB(it, emplaced))
         ELSE Out(s, RetB(it, emplaced))
     : s \in sort_if_needed(c)}

----------------------------------------------------------------------------
(* lazy_sorted_container: methods on two objects, from the two container   *)
(* values to the set of outcomes [left, right, ret]                        *)

Out2(l, r, x) == [left |-> l, right |-> r, ret |-> x]

\* What std::move leaves in the backing sequence it was moved from
\* (std::vector with std::allocator: the storage is taken over).
MovedFrom == <<>>

\* lazy_sorted_container(const lazy_sorted_container& obj) = default
copy_construct(obj) == {Out2(Cont(obj.elements, obj.sorted), obj, Void)}

\* lazy_sorted_container(lazy_sorted_container&& obj)
move_construct(obj) == {Out2(Cont(obj.elements, obj.sorted), Cont(MovedFrom, TRUE), Void)}

\* operator=(const lazy_sorted_container& obj) = default
copy_assign(this, obj) == {Out2(Cont(obj.elements, obj.sorted), obj, Void)}

\* operator=(lazy_sorted_container&& obj), obj another object than *this
move_assign(this, obj) == {Out2(Cont(obj.elements, obj.sorted), Cont(MovedFrom, TRUE), Void)}

\* operator=(lazy_sorted_container&& obj) with obj the very object assigned to
\* (c = std::move(c)).  elements_ = std::move(obj.elements_) is then a
\* self-move-assignment of the backing std::vector, whose result the library
\* leaves unspecified: the vector is emptied (libstdc++, libc++) or kept as it
\* is (a library that tests this != &right).  The flag ends true either way:
\* sorted_ = obj.sorted_ changes nothing and obj.sorted_ = true sets it.
move_assign_self(this) == {Out(Cont(es, TRUE), Void) : es \in {MovedFrom, this.elements}}

\* Mutation: swap exchanges the elements and leaves the flags.
swap_flags_kept(this, obj) ==
    {Out2(Cont(obj.elements, this.sorted), Cont(this.elements, obj.sorted), Void)}

\* swap(lazy_sorted_container& obj), swap(obj1, obj2)
swap(this, obj) == {Out2(obj, this, Void)}

\* Mutation: std::equal comparing the keys only.
equal_keys_only(l, r) == Len(l) = Len(r) /\ \A i \in 1..Len(l) : KEq(l[i].first, r[i].first)

\* std::equal(first1, last1, first2, last2) with operator== of the values
std_equal(l, r) == Len(l) = Len(r) /\ \A i \in 1..Len(l) : ValueEq(l[i], r[i])

RECURSIVE std_lexicographical_compare(_, _)
\* std::lexicographical_compare(first1, last1, first2, last2) with operator<
std_lexicographical_compare(l, r) ==
    IF r = <<>> THEN FALSE
    ELSE IF l = <<>> THEN TRUE
    ELSE IF ValueLess(l[1], r[1]) THEN TRUE
    ELSE IF ValueLess(r[1], l[1]) THEN FALSE
    ELSE std_lexicographical_compare(Tail(l), Tail(r))

\* operator==(left, right)
operator_eq(left, right) ==
    {Out2(l, r, RetB(0, std_equal(l.elements, r.elements))) :
        l \in sort_if_needed(left), r \in sort_if_needed(right)}

\* operator<(left, right)
operator_less(left, right) ==
    {Out2(l, r, RetB(0, std_lexicographical_compare(l.elements, r.elements))) :
        l \in sort_if_needed(left), r \in sort_if_needed(right)}

\* operator!=(left, right): !(left == right)
operator_ne(left, right) ==
    {Out2(o.left, o.right, RetB(0, ~o.ret.flag)) : o \in operator_eq(left, right)}

\* Mutation: operator<= as operator<.
operator_le_strict(left, right) == operator_less(left, right)

\* operator<=(left, right): !(right < left)
operator_le(left, right) ==
    {Out2(o.right, o.left, RetB(0, ~o.ret.flag)) : o \in operator_less(right, left)}

\* operator>(left, right): right < left
operator_gt(left, right) ==
    {Out2(o.right, o.left, RetB(0, o.ret.flag)) : o \in operator_less(right, left)}

\* operator>=(left, right): !(left < right)
operator_ge(left, right) ==
    {Out2(o.left, o.right, RetB(0, ~o.ret.flag)) : o \in operator_less(left, right)}

----------------------------------------------------------------------------
(* State and actions                                                       *)

\* The container object c as a value.
This(c) == Cont(elements_[c], sorted_[c])

Call(name, c, k, v) == [name |-> name, obj |-> c, key |-> k, val |-> v]

\* The lengths of the ranges and initializer lists callers pass.
RangeLens == {0, 1, 2}

\* The ranges over the keys K a caller can pass to a method that can take n
\* elements at most.
Ranges(K, n) == UNION {[1..m -> K \X Mapped] : m \in {l \in RangeLens : l <= n}}

\* Room left in the backing sequence of c when it may hold L elements.
Room(c, L) == L - Len(elements_[c])

\* The outcomes that leave at most L elements in the backing sequence.
Fits(outs, L) == {o \in outs : Len(o.elements) <= L}

\* Ghost: what `pre' records when a call is made on object c: its flag and
\* its length then.
Before(c) ==
    [sorted |-> sorted_[c], size |-> Len(elements_[c]), rsorted |-> TRUE, rsize |-> 0]

\* Ghost: the same for a call on the objects l and r (r in rsorted, rsize).
Before2(l, r) ==
    [sorted |-> sorted_[l], size |-> Len(elements_[l]),
     rsorted |-> sorted_[r], rsize |-> Len(elements_[r])]

\* The threads of the caller.
Threads == {1, 2}

\* A thread outside any call.
Idle == [pc |-> "idle", call |-> "none", saw |-> TRUE, raced |-> FALSE]

Unlocked == [writer |-> 0, readers |-> {}]

\* lazy_sorted_container(): both objects default-constructed, of one variant.
Init ==
    /\ Multi \in BOOLEAN
    /\ IsMap \in BOOLEAN
    /\ elements_ = [c \in Objs |-> <<>>]
    /\ sorted_ = [c \in Objs |-> TRUE]
    /\ op = Call("ctor", 1, 0, 0)
    /\ ret = Void
    /\ pre = Before(1)
    /\ ref = <<>>
    /\ thr = [t \in Threads |-> Idle]
    /\ lock = Unlocked

\* One call on object c with one of its outcomes.
Step(name, c, k, v, outs) ==
    \E o \in outs :
        /\ elements_' = [elements_ EXCEPT ![c] = o.elements]
        /\ sorted_' = [sorted_ EXCEPT ![c] = o.sorted]
        /\ op' = Call(name, c, k, v)
        /\ ret' = o.ret
        /\ pre' = Before(c)
        /\ UNCHANGED <<Multi, IsMap>>

\* The same made by a single caller, no lock involved.
Do(name, c, k, v, outs) == Step(name, c, k, v, outs) /\ UNCHANGED <<ref, thr, lock>>

\* One call on the two objects l and r with one of its outcomes.
Do2(name, l, r, outs) ==
    \E o \in outs :
        /\ l # r
        /\ UNCHANGED <<ref, thr, lock>>
        /\ elements_' = [elements_ EXCEPT ![l] = o.left.elements, ![r] = o.right.elements]
        /\ sorted_' = [sorted_ EXCEPT ![l] = o.left.sorted, ![r] = o.right.sorted]
        /\ op' = Call(name, l, 0, 0)
        /\ ret' = o.ret
        /\ pre' = Before2(l, r)
        /\ UNCHANGED <<Multi, IsMap>>

\* In the actions below c is the object called, K the keys the caller draws
\* arguments from and L the number of elements the object may hold.

Insert(c, K, L) ==
    \E k \in K, v \in Mapped :
        Room(c, L) > 0 /\ Do("insert", c, k, v, insert(This(c), k, v))

InsertRange(c, K, L) ==
    \E rng \in Ranges(K, Room(c, L)) :
        Do("insert_range", c, Len(rng), 0, insert_range(This(c), rng))

AssignInit(c, K, L) ==
    \E rng \in Ranges(K, L) : Do("assign_init", c, Len(rng), 0, assign_init(This(c), rng))

ConstructRange(c, K, L) ==
    \E rng \in Ranges(K, L) : Do("ctor_range", c, Len(rng), 0, construct_range(rng))

\* For the two erasures by position, op.key (and op.val) hold the positions.
ErasePos(c) ==
    \E pos \in 1..Len(elements_[c]) : Do("erase_pos", c, pos, 0, erase_pos(This(c), pos))

EraseRange(c) ==
    \E first \in 1..End(elements_[c]) : \E last \in first..End(elements_[c]) :
        Do("erase_range", c, first, last, erase_range(This(c), first, last))

EraseKey(c, K) == \E k \in K : Do("erase_key", c, k, 0, erase_key(This(c), k))

Clear(c) == Do("clear", c, 0, 0, clear(This(c)))

Find(c, K) == \E k \in K : Do("find", c, k, 0, find(This(c), k))

Count(c, K) == \E k \in K : Do("count", c, k, 0, count(This(c), k))

LowerBound(c, K) == \E k \in K : Do("lower_bound", c, k, 0, lower_bound(This(c), k))

UpperBound(c, K) == \E k \in K : Do("upper_bound", c, k, 0, upper_bound(This(c), k))

EqualRange(c, K) == \E k \in K : Do("equal_range", c, k, 0, equal_range(This(c), k))

Begin(c) == Do("begin", c, 0, 0, begin(This(c)))

EndIt(c) == Do("end", c, 0, 0, end_(This(c)))

Size(c) == Do("size", c, 0, 0, size(This(c)))

Empty(c) == Do("empty", c, 0, 0, empty(This(c)))

Sorted(c) == Do("sorted", c, 0, 0, sorted(This(c)))

Sort(c) == Do("sort", c, 0, 0, sort(This(c)))

At(c, K) == \E k \in K : IsNonMultiMap /\ Do("at", c, k, 0, at(This(c), k))

OperatorBrackets(c, K, L) ==
    \E k \in K :
        /\ IsNonMultiMap
        /\ Do("operator[]", c, k, 0, Fits(operator_brackets_impl(This(c), k), L))

InsertOrAssign(c, K, L) ==
    \E k \in K, v \in Vals :
        /\ IsNonMultiMap
        /\ Do("insert_or_assign", c, k, v, Fits(insert_or_assign_impl(This(c), k, v), L))

TryEmplace(c, K, L) ==
    \E k \in K, v \in Vals :
        /\ IsNonMultiMap
        /\ Do("try_emplace", c, k, v, Fits(try_emplace_impl(This(c), k, v), L))

MaxSize(c) == Do("max_size", c, 0, 0, max_size(This(c)))

InsertHint(c, K, L) ==
    \E k \in K, v \in Mapped : \E hint \in 1..End(elements_[c]) :
        Room(c, L) > 0 /\ Do("insert_hint", c, k, v, insert_hint(This(c), hint, k, v))

EmplaceHint(c, K, L) ==
    \E k \in K, v \in Mapped : \E hint \in 1..End(elements_[c]) :
        Room(c, L) > 0 /\ Do("emplace_hint", c, k, v, emplace_hint(This(c), hint, k, v))

\* The adapter coveo::lazy::inserter(c) is written to, dereferenced and
\* incremented.
InserterAssign(c, K, L) ==
    \E k \in K, v \in Mapped :
        Room(c, L) > 0 /\ Do("inserter_assign", c, k, v, inserter_assign(This(c), k, v))

InserterDeref(c) == Do("inserter_deref", c, 0, 0, inserter_noop(This(c)))

InserterIncrement(c) == Do("inserter_increment", c, 0, 0, inserter_noop(This(c)))

\* Every public call on the one object c.
Calls(c, K, L) ==
    \/ Insert(c, K, L) \/ InsertRange(c, K, L) \/ AssignInit(c, K, L)
    \/ ConstructRange(c, K, L)
    \/ ErasePos(c) \/ EraseRange(c) \/ EraseKey(c, K) \/ Clear(c)
    \/ Find(c, K) \/ Count(c, K) \/ LowerBound(c, K) \/ UpperBound(c, K)
    \/ EqualRange(c, K)
    \/ Begin(c) \/ EndIt(c) \/ Size(c) \/ Empty(c) \/ Sorted(c) \/ Sort(c)
    \/ At(c, K) \/ OperatorBrackets(c, K, L) \/ InsertOrAssign(c, K, L)
    \/ TryEmplace(c, K, L)

\* A single container driven through its public methods.
Next == Calls(1, Keys, MaxLen)

Spec == Init /\ [][Next]_vars

----------------------------------------------------------------------------
(* Two container objects                                                   *)

\* Largest number of elements of an object when two objects are driven.
PairLen == 2

\* The keys callers draw from when two objects are driven.
PairKeys == {1, 2}

\* dst is destroyed and constructed anew as a copy of src.
CopyConstruct(dst, src) ==
    /\ Len(elements_[src]) <= PairLen
    /\ Do2("copy_ctor", dst, src, copy_construct(This(src)))

MoveConstruct(dst, src) == Do2("move_ctor", dst, src, move_construct(This(src)))

CopyAssign(dst, src) ==
    /\ Len(elements_[src]) <= PairLen
    /\ Do2("copy_assign", dst, src, copy_assign(This(dst), This(src)))

MoveAssign(dst, src) == Do2("move_assign", dst, src, move_assign(This(dst), This(src)))

Swap(l, r) == Do2("swap", l, r, swap(This(l), This(r)))

OperatorEq(l, r) == Do2("operator==", l, r, operator_eq(This(l), This(r)))

OperatorLess(l, r) == Do2("operator<", l, r, operator_less(This(l), This(r)))

\* The calls that take two distinct objects.
Calls2(l, r) ==
    \/ CopyConstruct(l, r) \/ MoveConstruct(l, r) \/ CopyAssign(l, r)
    \/ MoveAssign(l, r) \/ Swap(l, r) \/ OperatorEq(l, r) \/ OperatorLess(l, r)

NextPair ==
    \/ Calls(1, PairKeys, PairLen)
    \/ \E l, r \in Objs : Calls2(l, r)

\* Two containers of one variant: every public method is called on object 1,
\* and the methods that take another container on either with the other.
SpecPair == Init /\ [][NextPair]_vars

\* c = std::move(c)
MoveAssignSelf(c) == Do("move_assign_self", c, 0, 0, move_assign_self(This(c)))

NextAlias ==
    \/ Calls(1, PairKeys, PairLen)
    \/ MoveAssignSelf(1)

\* One container whose caller also move-assigns it to itself.
SpecAlias == Init /\ [][NextAlias]_vars

----------------------------------------------------------------------------
(* An eagerly sorted reference container (std::set, std::multiset,         *)
(* std::multimap, std::map): ref is its sequence of <<key, mapped>> pairs, *)
(* kept in key order by every insertion                                    *)

\* What iterating es yields: the public values, without the ghost rank.
View(es) == [i \in 1..Len(es) |-> <<es[i].first, es[i].second>>]

\* The keys held by a backing sequence.
KeySet(es) == {es[i].first : i \in 1..Len(es)}

RefKeys(r) == {r[i][1] : i \in 1..Len(r)}

RefLower(r, k) == Cardinality({i \in 1..Len(r) : r[i][1] < k}) + 1

RefUpper(r, k) == Cardinality({i \in 1..Len(r) : r[i][1] <= k}) + 1

RefCount(r, k) == Cardinality({i \in 1..Len(r) : r[i][1] = k})

RefFind(r, k) == IF RefCount(r, k) > 0 THEN RefLower(r, k) ELSE Len(r) + 1

\* Unique keys for the non-multi variants; otherwise the new element goes
\* after every element with an equal key.
ref_insert(r, k, v) ==
    IF ~Multi /\ k \in RefKeys(r) THEN r
    ELSE LET at_ == RefUpper(r, k)
         IN  SubSeq(r, 1, at_ - 1) \o <<(<<k, v>>)>> \o SubSeq(r, at_, Len(r))

RECURSIVE ref_insert_range(_, _)
ref_insert_range(r, rng) ==
    IF rng = <<>> THEN r
    ELSE ref_insert_range(ref_insert(r, rng[1][1], rng[1][2]), Tail(rng))

ref_erase(r, k) == SelectSeq(r, LAMBDA x : x[1] # k)

RefInsert ==
    \E k \in Keys, v \in Mapped :
        /\ Room(1, MaxLen) > 0
        /\ Step("insert", 1, k, v, insert(This(1), k, v))
        /\ ref' = ref_insert(ref, k, v)
        /\ UNCHANGED <<thr, lock>>

RefInsertRange ==
    \E rng \in Ranges(Keys, Room(1, MaxLen)) :
        /\ Step("insert_range", 1, Len(rng), 0, insert_range(This(1), rng))
        /\ ref' = ref_insert_range(ref, rng)
        /\ UNCHANGED <<thr, lock>>

RefEraseKey ==
    \E k \in Keys :
        /\ Step("erase_key", 1, k, 0, erase_key(This(1), k))
        /\ ref' = ref_erase(ref, k)
        /\ UNCHANGED <<thr, lock>>

RefClear ==
    /\ Step("clear", 1, 0, 0, clear(This(1)))
    /\ ref' = <<>>
    /\ UNCHANGED <<thr, lock>>

\* The queries leave the reference as it is.
NextRef ==
    \/ RefInsert \/ RefInsertRange \/ RefEraseKey \/ RefClear
    \/ Find(1, Keys) \/ Count(1, Keys) \/ LowerBound(1, Keys)
    \/ UpperBound(1, Keys) \/ EqualRange(1, Keys)
    \/ Size(1) \/ Begin(1) \/ EndIt(1)

\* One container and the reference container driven by the same inserts,
\* erasures by key, clears and queries.
SpecRef == Init /\ [][NextRef]_vars

\* The observers leave the reference as it is.
NextObserve ==
    \/ RefInsert \/ RefInsertRange \/ RefEraseKey \/ RefClear
    \/ Size(1) \/ Empty(1) \/ Sorted(1) \/ MaxSize(1)

\* One container and the reference container driven by the same inserts,
\* erasures by key and clears, and observed through sorted(), empty(),
\* max_size() and size().
SpecObserve == Init /\ [][NextObserve]_vars

NextPlain ==
    \/ Insert(1, Keys, MaxLen) \/ InsertRange(1, Keys, MaxLen)
    \/ ErasePos(1) \/ EraseRange(1) \/ Clear(1)
    \/ Sort(1) \/ Size(1) \/ Empty(1)
    \/ InsertHint(1, Keys, MaxLen) \/ EmplaceHint(1, Keys, MaxLen)
    \/ InserterAssign(1, Keys, MaxLen) \/ InserterDeref(1) \/ InserterIncrement(1)

\* One container filled by insertion, plain, with a hint and through the
\* insert adapter, erased from by position, sorted and observed.
SpecPlain == Init /\ [][NextPlain]_vars

----------------------------------------------------------------------------
(* Two container objects filled by insertion, swapped, compared, and       *)
(* filled one from the iteration of the other                              *)

\* this.insert(obj.begin(), obj.end()): begin() resorts obj, the range
\* inserted is obj's sorted iteration.
insert_from(this, obj) ==
    UNION {{Out2(Cont(o.elements, o.sorted), s, Void) :
               o \in insert_range(this, View(s.elements))}
           : s \in sort_if_needed(obj)}

InsertFrom(dst, src) ==
    /\ Len(elements_[dst]) + Len(elements_[src]) <= PairLen
    /\ Do2("insert_from", dst, src, insert_from(This(dst), This(src)))

NextTwo ==
    \/ \E c \in Objs : Insert(c, PairKeys, PairLen)
    \/ \E c \in Objs : InsertRange(c, PairKeys, PairLen)
    \/ \E c \in Objs : Clear(c)
    \/ \E l, r \in Objs : Swap(l, r)
    \/ \E l, r \in Objs : OperatorEq(l, r)
    \/ \E l, r \in Objs : InsertFrom(l, r)

SpecTwo == Init /\ [][NextTwo]_vars

OperatorNe(l, r) == Do2("operator!=", l, r, operator_ne(This(l), This(r)))

OperatorLe(l, r) == Do2("operator<=", l, r, operator_le(This(l), This(r)))

OperatorGt(l, r) == Do2("operator>", l, r, operator_gt(This(l), This(r)))

OperatorGe(l, r) == Do2("operator>=", l, r, operator_ge(This(l), This(r)))

NextCompare ==
    \/ \E c \in Objs : Insert(c, PairKeys, PairLen)
    \/ \E l, r \in Objs : OperatorNe(l, r)
    \/ \E l, r \in Objs : OperatorLess(l, r)
    \/ \E l, r \in Objs : OperatorLe(l, r)
    \/ \E l, r \in Objs : OperatorGt(l, r)
    \/ \E l, r \in Objs : OperatorGe(l, r)

\* Two containers filled by insertion and compared with the six operators.
SpecCompare == Init /\ [][NextCompare]_vars

----------------------------------------------------------------------------
(* Threads calling const methods of object 1. A call is made in steps: the *)
(* thread enters the method, reads sorted_ in sort_if_needed, runs         *)
(* internal_sort if it read false, then searches elements_ and returns.    *)
(* elements_ and sorted_ are mutable members written without any           *)
(* synchronisation, so two threads inside internal_sort, or one inside it  *)
(* while another searches, is a data race.                                 *)

ConcLen == 2

ConcKeys == {1, 2}

\* The const methods a reader calls; sort() is what a writer calls last.
ReadCalls ==
    {"find", "count", "lower_bound", "upper_bound", "equal_range", "begin", "end", "size"}

Others(t) == Threads \ {t}

AllIdle == \A t \in Threads : thr[t].pc = "idle"

Range(es) == {es[i] : i \in 1..Len(es)}

\* No data race has happened: the behaviour of the program is still defined.
Defined == \A t \in Threads : ~thr[t].raced

\* What a data race on elements_ can leave behind: the concurrent moves of
\* two sorts can lose and duplicate elements.
Torn(es) == UNION {[1..n -> Range(es)] : n \in 0..Len(es)}

\* What a search racing with a sort can return.
AnyRet(es) == {Ret(i, j) : i, j \in 0..End(es)}

\* The calls that take a key.
Keyed == {"find", "count", "lower_bound", "upper_bound", "equal_range"}

\* Thread t enters the method call.
Enter(t, calls) ==
    \E call \in calls :
        /\ thr[t].pc = "idle" /\ Defined
        /\ thr' = [thr EXCEPT ![t] = [Idle EXCEPT !.pc = "entered", !.call = call]]
        /\ UNCHANGED <<Multi, IsMap, elements_, sorted_, op, ret, pre, ref, lock>>

\* sort_if_needed(), its test: t reads sorted_. size() reads it only when the
\* container is not multi.
ReadFlag(t) ==
    /\ thr[t].pc = "entered" /\ Defined
    /\ LET skip == thr[t].call = "size" /\ Multi
           need == ~skip /\ needs_sort(This(1))
           race == need /\ \E u \in Others(t) : thr[u].pc = "sorting"
       IN  thr' = [u \in Threads |->
                      IF u = t
                      THEN [thr[t] EXCEPT !.pc = IF need THEN "sorting" ELSE "search",
                                          !.saw = IF skip THEN TRUE ELSE sorted_[1],
                                          !.raced = race]
                      ELSE IF race /\ thr[u].pc = "sorting"
                           THEN [thr[u] EXCEPT !.raced = TRUE]
                           ELSE thr[u]]
    /\ UNCHANGED <<Multi, IsMap, elements_, sorted_, op, ret, pre, ref, lock>>

\* internal_sort(): t has sorted elements_ and sets sorted_. After a data race
\* the behaviour is undefined: the thread leaves anything behind and the
\* program is followed no further.
FinishSort(t) ==
    /\ thr[t].pc = "sorting"
    /\ \A u \in Threads : thr[u].pc # "undefined"
    /\ \E s \in IF thr[t].raced
                THEN {Cont(es, TRUE) : es \in Torn(elements_[1])}
                ELSE internal_sort(Cont(elements_[1], FALSE)) :
          /\ elements_' = [elements_ EXCEPT ![1] = s.elements]
          /\ sorted_' = [sorted_ EXCEPT ![1] = s.sorted]
    /\ thr' = [thr EXCEPT ![t].pc = IF thr[t].raced THEN "undefined" ELSE "search"]
    /\ UNCHANGED <<Multi, IsMap, op, ret, pre, ref, lock>>

\* The const method `call' (and sort()) as one call.
Method(call, c, key) ==
    CASE call = "find" -> find(c, key)
      [] call = "count" -> count(c, key)
      [] call = "lower_bound" -> lower_bound(c, key)
      [] call = "upper_bound" -> upper_bound(c, key)
      [] call = "equal_range" -> equal_range(c, key)
      [] call = "begin" -> begin(c)
      [] call = "end" -> end_(c)
      [] call = "size" -> size(c)
      [] call = "sort" -> sort(c)

\* t searches elements_ and returns: the rest of the method once
\* sort_if_needed() is behind, on elements_ as they are. The key the call
\* was made with is read here for the first time.
Return(t) ==
    /\ thr[t].pc = "search" /\ Defined
    /\ \E k \in IF thr[t].call \in Keyed THEN ConcKeys ELSE {0} :
          /\ \E r \in IF \E u \in Others(t) : thr[u].pc = "sorting"
                      THEN AnyRet(elements_[1])
                      ELSE {o.ret : o \in Method(thr[t].call, Cont(elements_[1], TRUE), k)} :
                ret' = r
          /\ op' = Call(thr[t].call, 1, k, 0)
    /\ pre' = [Before(1) EXCEPT !.sorted = thr[t].saw]
    /\ thr' = [thr EXCEPT ![t] = Idle]
    /\ UNCHANGED <<Multi, IsMap, elements_, sorted_, ref, lock>>

\* The container is filled by one thread before the others use it.
RaceInsert == AllIdle /\ Insert(1, ConcKeys, ConcLen)

RaceInsertRange == AllIdle /\ InsertRange(1, ConcKeys, ConcLen)

RaceClear == AllIdle /\ Clear(1)

NextRace ==
    \/ RaceInsert \/ RaceInsertRange \/ RaceClear
    \/ \E t \in Threads : Enter(t, ReadCalls)
    \/ \E t \in Threads : ReadFlag(t)
    \/ \E t \in Threads : FinishSort(t)
    \/ \E t \in Threads : Return(t)

\* Threads calling const methods of one container with no lock at all.
SpecRace == Init /\ [][NextRace]_vars

----------------------------------------------------------------------------
(* The same threads under a shared mutex, used as the class documentation  *)
(* asks: a thread takes the lock exclusively to modify the container and   *)
(* makes an order-dependent call (sort(), or any of the lookups) last      *)
(* before it unlocks; a thread takes it shared to call const methods.      *)

LockExclusive(t) ==
    /\ thr[t].pc = "idle" /\ lock = Unlocked
    /\ lock' = [lock EXCEPT !.writer = t]
    /\ UNCHANGED <<Multi, IsMap, elements_, sorted_, op, ret, pre, ref, thr>>

\* The writer unlocks after an order-dependent call, its last one.
UnlockExclusive(t) ==
    /\ thr[t].pc = "idle" /\ lock.writer = t
    /\ op.name \in ReadCalls \cup {"sort"}
    /\ op.name = "size" => ~Multi
    /\ lock' = Unlocked
    /\ UNCHANGED <<Multi, IsMap, elements_, sorted_, op, ret, pre, ref, thr>>

LockShared(t) ==
    /\ thr[t].pc = "idle" /\ lock.writer = 0 /\ t \notin lock.readers
    /\ lock' = [lock EXCEPT !.readers = @ \cup {t}]
    /\ UNCHANGED <<Multi, IsMap, elements_, sorted_, op, ret, pre, ref, thr>>

UnlockShared(t) ==
    /\ thr[t].pc = "idle" /\ t \in lock.readers
    /\ lock' = [lock EXCEPT !.readers = @ \ {t}]
    /\ UNCHANGED <<Multi, IsMap, elements_, sorted_, op, ret, pre, ref, thr>>

WriterInsert(t) == thr[t].pc = "idle" /\ lock.writer = t /\ Insert(1, ConcKeys, ConcLen)

WriterInsertRange(t) ==
    thr[t].pc = "idle" /\ lock.writer = t /\ InsertRange(1, ConcKeys, ConcLen)

WriterErasePos(t) == thr[t].pc = "idle" /\ lock.writer = t /\ ErasePos(1)

WriterClear(t) == thr[t].pc = "idle" /\ lock.writer = t /\ Clear(1)

\* A thread that holds the lock enters a const method; the writer may also
\* enter sort().
LockedEnter(t) ==
    \/ lock.writer = t /\ Enter(t, ReadCalls \cup {"sort"})
    \/ t \in lock.readers /\ Enter(t, ReadCalls)

NextLocked ==
    \/ \E t \in Threads : LockExclusive(t)
    \/ \E t \in Threads : UnlockExclusive(t)
    \/ \E t \in Threads : LockShared(t)
    \/ \E t \in Threads : UnlockShared(t)
    \/ \E t \in Threads : WriterInsert(t)
    \/ \E t \in Threads : WriterInsertRange(t)
    \/ \E t \in Threads : WriterErasePos(t)
    \/ \E t \in Threads : WriterClear(t)
    \/ \E t \in Threads : LockedEnter(t)
    \/ \E t \in Threads : ReadFlag(t)
    \/ \E t \in Threads : FinishSort(t)
    \/ \E t \in Threads : Return(t)

SpecLocked == Init /\ [][NextLocked]_vars

----------------------------------------------------------------------------
(* Properties                                                              *)

\* Non-decreasing key order.
IsOrdered(es) == \A i, j \in 1..Len(es) : i < j => ~KCmp(es[j].first, es[i].first)

\* No two elements with equal keys.
DistinctKeys(es) == \A i, j \in 1..Len(es) : i # j => ~KEq(es[i].first, es[j].first)

\* The invariant the sorted_ flag stands for.
FlagSound(c) ==
    sorted_[c] => IsOrdered(elements_[c]) /\ (~Multi => DistinctKeys(elements_[c]))

\* C1: in every state reached through the public methods, a container
\* whose sorted flag is true holds its elements in non-decreasing key order
\* and, for set and map, holds no two elements with equal keys.
C1_SortedFlagImpliesOrdered == \A c \in Objs : FlagSound(c)

\* The calls that need the order, on one object.
OrderDependent ==
    {"begin", "end", "find", "count", "lower_bound", "upper_bound", "equal_range",
     "erase_key", "at", "operator[]", "insert_or_assign", "try_emplace", "sort"}

Comparisons == {"operator==", "operator<"}

\* C2: after an order-dependent call (begin/end, find, count, lower_bound,
\* upper_bound, equal_range, erase(key), at, operator[], insert_or_assign,
\* try_emplace, sort, size on set and map) the object called reports
\* sorted() true, and after a comparison both operands do, whatever their
\* flags were before.
C2_SortedAfterOrderDependentCall ==
    /\ op.name \in OrderDependent => sorted_[op.obj]
    /\ (op.name = "size" /\ ~Multi) => sorted_[op.obj]
    /\ op.name \in Comparisons => \A c \in Objs : sorted_[c]

\* C2 witness: operator== has returned on two containers that were both
\* Dirty, with two elements each out of order before.
C2_Witness ==
    /\ op.name = "operator==" /\ ~pre.sorted /\ ~pre.rsorted
    /\ pre.size = 2 /\ pre.rsize = 2
    /\ \A c \in Objs : sorted_[c]

\* Elements with equal keys stand in the order of their insertion.
RanksInOrder(es) ==
    \A i, j \in 1..Len(es) : (i < j /\ es[i].first = es[j].first) => es[i].seq < es[j].seq

\* C3: multiset and multimap: whenever the container is Sorted (so whenever
\* it is iterated), the elements that share a key stand in the relative
\* order in which they were inserted, after any interleaving of single and
\* bulk inserts, erasures and queries.
C3_StableAmongEqualKeys ==
    Multi => \A c \in Objs : sorted_[c] => RanksInOrder(elements_[c])

\* C3 witness: begin() has resorted a Dirty multimap and two elements with
\* the same key and different mapped values are neighbours after a smaller key.
C3_Witness ==
    /\ Multi /\ IsMap /\ op.name = "begin" /\ ~pre.sorted
    /\ Len(elements_[1]) = 3
    /\ elements_[1][1].first < elements_[1][2].first
    /\ elements_[1][2].first = elements_[1][3].first
    /\ elements_[1][2].second > elements_[1][3].second

\* C4: set and map: size() is the number of distinct keys held, in every
\* state and however often a key was inserted; the call that returned last
\* left exactly that many elements.
C4_SizeCountsDistinctKeys ==
    ~Multi =>
        /\ \A c \in Objs : \A o \in size(This(c)) :
              o.ret.first = Cardinality(KeySet(elements_[c]))
        /\ op.name = "size" =>
              /\ ret.first = Cardinality(KeySet(elements_[op.obj]))
              /\ ret.first = Len(elements_[op.obj])

\* C4 witness: size() on a Dirty set or map has returned less than the
\* number of elements the backing sequence held.
C4_Witness ==
    ~Multi /\ op.name = "size" /\ ~pre.sorted /\ pre.size = 3 /\ ret.first = 2

\* What each query of the lazy container c answers equals what the
\* reference container r answers.
SameAnswers(c, r) ==
    /\ \A k \in Keys :
          /\ \A o \in find(c, k) : o.ret.first = RefFind(r, k)
          /\ \A o \in count(c, k) : o.ret.first = RefCount(r, k)
          /\ \A o \in lower_bound(c, k) : o.ret.first = RefLower(r, k)
          /\ \A o \in upper_bound(c, k) : o.ret.first = RefUpper(r, k)
          /\ \A o \in equal_range(c, k) :
                o.ret.first = RefLower(r, k) /\ o.ret.second = RefUpper(r, k)
          /\ \A o \in erase_key(c, k) : o.ret.first = RefCount(r, k)
    /\ \A o \in size(c) : o.ret.first = Len(r)
    /\ \A o \in begin(c) : View(o.elements) = r
    /\ \A o \in end_(c) : o.ret.first = Len(r) + 1

\* C5: set, multiset, multimap: in every state reached by inserts, bulk
\* inserts, erasures by key, clears and queries, every query answers what
\* the eagerly sorted reference container driven by the same calls answers,
\* and iteration yields the reference's sequence.
C5_LazinessUnobservable == ~IsNonMultiMap => SameAnswers(This(1), ref)

\* C5 witness: find has returned on a Dirty container that held more
\* elements than the reference (a duplicate key in a set).
C5_Witness ==
    /\ ~IsNonMultiMap /\ op.name = "find" /\ ~pre.sorted
    /\ pre.size > Len(ref) /\ Len(ref) = 2
    /\ ret.first = RefFind(ref, op.key)

\* C6: erase(k) returns what count(k) returns on the same state, leaves size()
\* smaller by that number and find(k) at end(); when no element has key k it
\* returns 0 and leaves the keys held as they were.
C6_EraseKeyReturnsCount ==
    /\ \A c \in Objs : \A k \in Keys : \A e \in erase_key(This(c), k) :
          LET after == Cont(e.elements, e.sorted)
          IN  /\ \A n \in count(This(c), k) : e.ret.first = n.ret.first
              /\ \A sb \in size(This(c)) : \A sa \in size(after) :
                    sa.ret.first = sb.ret.first - e.ret.first
              /\ \A f \in find(after, k) : f.ret.first = End(f.elements)
              /\ k \notin KeySet(elements_[c]) =>
                    /\ e.ret.first = 0
                    /\ KeySet(e.elements) = KeySet(elements_[c])
    /\ op.name = "erase_key" =>
          /\ op.key \notin KeySet(elements_[op.obj])
          /\ ret.first <= pre.size
          /\ (~Multi => Len(elements_[op.obj]) <= pre.size - ret.first)
          /\ (Multi => Len(elements_[op.obj]) = pre.size - ret.first)

\* C6 witness: erase(k) on a Dirty multi container has erased two elements
\* and left one.
C6_Witness ==
    /\ Multi /\ op.name = "erase_key" /\ ~pre.sorted /\ pre.size = 3
    /\ ret.first = 2 /\ Len(elements_[1]) = 1

\* C7: map: at(k) throws out_of_range exactly when no element has key k,
\* otherwise returns the mapped value of an element with key k; a throwing
\* at(k) leaves the keys held and size() as they were.
C7_AtThrowsIffAbsent ==
    IsNonMultiMap =>
        /\ \A c \in Objs : \A k \in Keys : \A o \in at(This(c), k) :
              /\ o.ret.threw <=> k \notin KeySet(elements_[c])
              /\ ~o.ret.threw =>
                    \E i \in 1..Len(elements_[c]) :
                        /\ elements_[c][i].first = k
                        /\ elements_[c][i].second = o.ret.first
              /\ o.ret.threw =>
                    /\ KeySet(o.elements) = KeySet(elements_[c])
                    /\ \A sb \in size(This(c)) :
                       \A sa \in size(Cont(o.elements, o.sorted)) :
                          sa.ret.first = sb.ret.first
        /\ op.name = "at" =>
              /\ ret.threw <=> op.key \notin KeySet(elements_[op.obj])
              /\ ~ret.threw =>
                    \E i \in 1..Len(elements_[op.obj]) :
                        /\ elements_[op.obj][i].first = op.key
                        /\ elements_[op.obj][i].second = ret.first

\* C7 witness: at(2) has thrown on a map that was Dirty and holds keys 1 and 3.
C7_Witness ==
    /\ IsNonMultiMap /\ op.name = "at" /\ op.key = 2 /\ ret.threw /\ ~pre.sorted
    /\ KeySet(elements_[1]) = {1, 3}

\* C8: map: operator[](k) with k absent adds exactly one element, (k, T()),
\* so that size() grows by one and the container is Sorted, ordered and with
\* distinct keys; with k present it adds nothing, size() stays and the value
\* returned is the mapped value of an element stored under k.
C8_BracketsInsertsDefaultInOrder ==
    IsNonMultiMap =>
        /\ \A c \in Objs : \A k \in Keys :
              \A o \in operator_brackets_impl(This(c), k) :
              \A sb \in size(This(c)) :
                 /\ o.sorted /\ IsOrdered(o.elements) /\ DistinctKeys(o.elements)
                 /\ IF k \notin KeySet(elements_[c])
                    THEN /\ Len(o.elements) = sb.ret.first + 1
                         /\ KeySet(o.elements) = KeySet(elements_[c]) \cup {k}
                         /\ o.ret.first = 0
                         /\ o.elements[o.ret.second].first = k
                         /\ o.elements[o.ret.second].second = 0
                    ELSE /\ Len(o.elements) = sb.ret.first
                         /\ KeySet(o.elements) = KeySet(elements_[c])
                         /\ o.elements[o.ret.second].first = k
                         /\ o.elements[o.ret.second].second = o.ret.first
                         /\ \E i \in 1..Len(elements_[c]) :
                               /\ elements_[c][i].first = k
                               /\ elements_[c][i].second = o.ret.first
        /\ op.name = "operator[]" =>
              /\ sorted_[op.obj] /\ IsOrdered(elements_[op.obj])
              /\ DistinctKeys(elements_[op.obj])
              /\ elements_[op.obj][ret.second].first = op.key
              /\ elements_[op.obj][ret.second].second = ret.first

\* C8 witness: operator[](2) on a Dirty map holding key 3 twice and key 1
\* has put (2, T()) between the two keys left.
C8_Witness ==
    /\ IsNonMultiMap /\ op.name = "operator[]" /\ op.key = 2 /\ ~pre.sorted
    /\ pre.size = 3 /\ Len(elements_[1]) = 3 /\ ret.second = 2
    /\ View(elements_[1])[2] = <<2, 0>>

\* A thread inside internal_sort, writing elements_ and then sorted_.
Writing(t) == thr[t].pc \in {"sorting", "undefined"}

\* C9: with no lock, a thread making a const call runs the resort whenever
\* it read the flag false, and nothing else decides it: every thread inside
\* the resort read false, and when two const calls have raced both threads
\* read false on the same Dirty container. (That two threads are inside the
\* resort at once is the state C9_Witness describes.)
C9_ReadersResortAfterReadingFalse ==
    \A t \in Threads :
        /\ Writing(t) => ~thr[t].saw /\ thr[t].call \in ReadCalls
        /\ thr[t].raced =>
              /\ Writing(t)
              /\ \E u \in Others(t) : thr[u].raced /\ ~thr[u].saw

\* C9 witness: find and count, called by two threads on a Dirty container
\* holding two elements out of order, are both inside internal_sort; both
\* read sorted_ false, the flag is still false.
C9_Witness ==
    /\ thr[1].call = "find" /\ thr[2].call = "count"
    /\ \A t \in Threads : thr[t].pc = "sorting" /\ ~thr[t].saw /\ thr[t].raced
    /\ ~sorted_[1] /\ Len(elements_[1]) = 2 /\ ~IsOrdered(elements_[1])

\* C10: under the shared mutex, with writers making an order-dependent call
\* last: while the lock is free or held shared the container is Sorted and
\* ordered, no thread holding it shared is ever inside internal_sort or in
\* a data race, and every const method called on the container then leaves
\* elements_ and sorted_ as they are.
C10_ReadersNeverWriteUnderSharedLock ==
    /\ \A t \in lock.readers : ~Writing(t) /\ ~thr[t].raced /\ thr[t].saw
    /\ lock.writer = 0 =>
          /\ sorted_[1] /\ FlagSound(1)
          /\ \A call \in ReadCalls, k \in ConcKeys :
                \A o \in Method(call, This(1), k) :
                    o.elements = elements_[1] /\ o.sorted = sorted_[1]

\* C10 witness: both threads hold the lock shared and are searching at
\* once, after a writer's sort() resorted two elements and it unlocked.
C10_Witness ==
    /\ lock.readers = Threads
    /\ \A t \in Threads : thr[t].pc = "search" /\ thr[t].saw
    /\ thr[1].call = "find" /\ thr[2].call = "begin"
    /\ op.name = "sort" /\ ~pre.sorted /\ Len(elements_[1]) = 2

\* C11: clear(), whatever the state it is called in, leaves a container
\* for which empty() is true, size() is 0 and sorted() is true.
C11_ClearLeavesEmptySorted ==
    /\ \A c \in Objs : \A o \in clear(This(c)) :
          LET after == Cont(o.elements, o.sorted)
          IN  /\ \A e \in empty(after) : e.ret.flag
              /\ \A n \in size(after) : n.ret.first = 0
              /\ \A f \in sorted(after) : f.ret.flag
    /\ op.name = "clear" =>
          /\ \A e \in empty(This(op.obj)) : e.ret.flag
          /\ \A n \in size(This(op.obj)) : n.ret.first = 0
          /\ \A f \in sorted(This(op.obj)) : f.ret.flag

\* C11 witness: clear() has returned on a container that was Dirty with
\* three elements.
C11_Witness ==
    /\ op.name = "clear" /\ ~pre.sorted /\ pre.size = 3
    /\ elements_[1] = <<>> /\ sorted_[1]

\* C14: sort() leaves sorted() true and the elements ordered; on a Sorted
\* container it changes neither the elements, nor their order, nor the
\* flag, so a second sort() changes nothing.
C14_SortIdempotent ==
    /\ \A c \in Objs : \A o \in sort(This(c)) :
          LET after == Cont(o.elements, o.sorted)
          IN  /\ o.sorted /\ IsOrdered(o.elements)
              /\ sorted_[c] => after = This(c)
              /\ \A o2 \in sort(after) : Cont(o2.elements, o2.sorted) = after
    /\ op.name = "sort" =>
          /\ sorted_[op.obj] /\ IsOrdered(elements_[op.obj])
          /\ \A o \in sort(This(op.obj)) : Cont(o.elements, o.sorted) = This(op.obj)

\* C14 witness: sort() has returned on a container that was Dirty, made so
\* by the insertion of three elements, and holds them ordered.
C14_Witness ==
    /\ op.name = "sort" /\ ~pre.sorted /\ pre.size = 3
    /\ Len(elements_[1]) = 3 /\ sorted_[1]
    /\ elements_[1][1].first < elements_[1][3].first

\* The number of elements of es with key k.
CountKey(es, k) == Cardinality({i \in 1..Len(es) : KEq(es[i].first, k)})

\* The number of elements of es whose key is less than k, plus one: the
\* first position of an ordered es whose key is not less than k.
FirstNotLess(es, k) == Cardinality({i \in 1..Len(es) : KCmp(es[i].first, k)}) + 1

\* The first position of an ordered es whose key is greater than k.
FirstGreater(es, k) == Cardinality({i \in 1..Len(es) : ~KCmp(k, es[i].first)}) + 1

\* What find(k) answered with position pos on the elements es it left.
FoundRight(es, pos, k, held) ==
    IF held
    THEN /\ pos \in 1..Len(es) /\ KEq(es[pos].first, k)
         /\ Multi =>
               /\ \A i \in 1..(pos - 1) : ~KEq(es[i].first, k)
               /\ \A i \in 1..Len(es) : KEq(es[i].first, k) => es[pos].seq <= es[i].seq
    ELSE pos = End(es)

\* C15: find(k) returns the position of an element with key k when one is
\* stored and end() otherwise; for multiset and multimap it is the first of
\* the elements with key k, the one inserted earliest among those left.
C15_FindLocatesKey ==
    /\ \A c \in Objs : \A k \in Keys : \A o \in find(This(c), k) :
          /\ ~o.ret.threw
          /\ FoundRight(o.elements, o.ret.first, k, k \in KeySet(elements_[c]))
    /\ op.name = "find" =>
          /\ ~ret.threw
          /\ FoundRight(elements_[op.obj], ret.first, op.key,
                        op.key \in KeySet(elements_[op.obj]))

\* C15 witness: find(2) on a Dirty multimap has returned position 2, where
\* the first inserted of two elements with key 2 stands, after key 1.
C15_Witness ==
    /\ Multi /\ IsMap /\ op.name = "find" /\ op.key = 2 /\ ~pre.sorted
    /\ ret.first = 2 /\ Len(elements_[1]) = 3
    /\ elements_[1][1].first = 1 /\ elements_[1][3].first = 2
    /\ elements_[1][2].second # elements_[1][3].second

\* What the three bound queries answered on the elements es they left.
BoundsRight(es, lo, up, eq, k) ==
    /\ IsOrdered(es)
    /\ lo = FirstNotLess(es, k)
    /\ up = FirstGreater(es, k)
    /\ eq = <<lo, up>>
    /\ lo = End(es) \/ ~KCmp(es[lo].first, k)
    /\ \A i \in 1..(lo - 1) : KCmp(es[i].first, k)
    /\ up = End(es) \/ KCmp(k, es[up].first)
    /\ \A i \in 1..(up - 1) : ~KCmp(k, es[i].first)

\* C16: for every key k, in every state: lower_bound(k) is the first
\* position in sorted order whose key is not less than k, upper_bound(k)
\* the first whose key is greater than k (end() when there is none), and
\* equal_range(k) is the pair of the two.
C16_BoundsAreFirstPositions ==
    /\ \A c \in Objs : \A k \in Keys :
       \A l \in lower_bound(This(c), k) :
       \A u \in upper_bound(Cont(l.elements, l.sorted), k) :
       \A e \in equal_range(Cont(u.elements, u.sorted), k) :
          /\ KeySet(l.elements) = KeySet(elements_[c])
          /\ u.elements = l.elements /\ e.elements = l.elements
          /\ BoundsRight(l.elements, l.ret.first, u.ret.first,
                         <<e.ret.first, e.ret.second>>, k)
    /\ op.name = "lower_bound" => ret.first = FirstNotLess(elements_[op.obj], op.key)
    /\ op.name = "upper_bound" => ret.first = FirstGreater(elements_[op.obj], op.key)
    /\ op.name = "equal_range" =>
          /\ ret.first = FirstNotLess(elements_[op.obj], op.key)
          /\ ret.second = FirstGreater(elements_[op.obj], op.key)

\* C16 witness: upper_bound(2) on a Dirty container has returned position 3
\* of three, past an element with key 2 and before one with key 3.
C16_Witness ==
    /\ op.name = "upper_bound" /\ op.key = 2 /\ ~pre.sorted /\ ret.first = 3
    /\ Len(elements_[1]) = 3
    /\ elements_[1][2].first = 2 /\ elements_[1][3].first = 3

\* C17: count(k) is the number of stored elements with key k, the distance
\* from lower_bound(k) to upper_bound(k); for multiset and multimap that is
\* every element inserted with key k and not erased, for set and map it is
\* 1 when k is held and 0 otherwise, however often k was inserted.
C17_CountIsNumberOfKey ==
    /\ \A c \in Objs : \A k \in Keys : \A n \in count(This(c), k) :
          /\ n.ret.first = CountKey(n.elements, k)
          /\ n.ret.first = FirstGreater(n.elements, k) - FirstNotLess(n.elements, k)
          /\ \A l \in lower_bound(This(c), k) : \A u \in upper_bound(This(c), k) :
                n.ret.first = u.ret.first - l.ret.first
          /\ Multi => n.ret.first = CountKey(elements_[c], k)
          /\ ~Multi => n.ret.first = IF k \in KeySet(elements_[c]) THEN 1 ELSE 0
    /\ op.name = "count" =>
          /\ ret.first = CountKey(elements_[op.obj], op.key)
          /\ ~Multi => ret.first <= 1

\* C17 witness: count(k) has returned 1 on a set or map that was Dirty with
\* three elements, two of them with key k.
C17_Witness ==
    /\ ~Multi /\ op.name = "count" /\ ~pre.sorted /\ pre.size = 3
    /\ ret.first = 1 /\ Len(elements_[1]) = 2

\* The public values of es other than the one stored under key k.
ViewWithout(es, k) == View(SelectSeq(es, LAMBDA x : x.first # k))

\* The sorted sequences a resort of c can leave: what the container holds.
Held(c) == {s.elements : s \in sort_if_needed(c)}

\* C18: map: insert_or_assign(k, v) with k absent returns true and adds one
\* element (k, v); with k present it returns false, adds nothing and stores
\* v under k. Either way the position returned is that of the element with
\* key k, whose value is v, every other element is as it was, and the
\* container is Sorted, ordered and with distinct keys.
C18_InsertOrAssign ==
    IsNonMultiMap =>
        /\ \A c \in Objs : \A k \in Keys : \A v \in Vals :
           \A o \in insert_or_assign_impl(This(c), k, v) :
           \A sb \in size(This(c)) :
              /\ o.ret.flag <=> k \notin KeySet(elements_[c])
              /\ Len(o.elements) = sb.ret.first + (IF o.ret.flag THEN 1 ELSE 0)
              /\ KeySet(o.elements) = KeySet(elements_[c]) \cup {k}
              /\ o.ret.first \in 1..Len(o.elements)
              /\ View(o.elements)[o.ret.first] = <<k, v>>
              /\ \E h \in Held(This(c)) : ViewWithout(h, k) = ViewWithout(o.elements, k)
              /\ o.sorted /\ IsOrdered(o.elements) /\ DistinctKeys(o.elements)
        /\ op.name = "insert_or_assign" =>
              /\ sorted_[op.obj] /\ IsOrdered(elements_[op.obj])
              /\ DistinctKeys(elements_[op.obj])
              /\ View(elements_[op.obj])[ret.first] = <<op.key, op.val>>
              /\ ret.flag => Len(elements_[op.obj]) >= 1

\* C18 witness: insert_or_assign(2, 1) on a map holding (1, 0), (2, 0),
\* (3, 0), Dirty before, has returned false and position 2.
C18_Witness ==
    /\ IsNonMultiMap /\ op.name = "insert_or_assign" /\ op.key = 2 /\ op.val = 1
    /\ ~pre.sorted /\ pre.size = 3 /\ ~ret.flag /\ ret.first = 2
    /\ View(elements_[1]) = <<(<<1, 0>>), (<<2, 1>>), (<<3, 0>>)>>

\* C19: map: try_emplace(k, args) with k present returns false and leaves
\* every element as it is held, the mapped value under k included; with k
\* absent it returns true and adds exactly one element with key k, at the
\* position that keeps the sequence ordered.
C19_TryEmplace ==
    IsNonMultiMap =>
        /\ \A c \in Objs : \A k \in Keys : \A v \in Vals :
           \A o \in try_emplace_impl(This(c), k, v) :
              /\ o.ret.flag <=> k \notin KeySet(elements_[c])
              /\ o.sorted /\ IsOrdered(o.elements) /\ DistinctKeys(o.elements)
              /\ o.ret.first \in 1..Len(o.elements)
              /\ o.elements[o.ret.first].first = k
              /\ IF o.ret.flag
                 THEN /\ View(o.elements)[o.ret.first] = <<k, v>>
                      /\ \E h \in Held(This(c)) :
                            /\ Len(o.elements) = Len(h) + 1
                            /\ View(h) = ViewWithout(o.elements, k)
                 ELSE /\ o.elements \in Held(This(c))
                      /\ sorted_[c] => o.elements = elements_[c]
        /\ op.name = "try_emplace" =>
              /\ sorted_[op.obj] /\ IsOrdered(elements_[op.obj])
              /\ DistinctKeys(elements_[op.obj])
              /\ elements_[op.obj][ret.first].first = op.key
              /\ ret.flag => elements_[op.obj][ret.first].second = op.val

\* C19 witness: try_emplace(2, 1) on a map holding (1, 0), (2, 0), (3, 0),
\* Dirty before, has returned false and left (2, 0).
C19_Witness ==
    /\ IsNonMultiMap /\ op.name = "try_emplace" /\ op.key = 2 /\ op.val = 1
    /\ ~pre.sorted /\ pre.size = 3 /\ ~ret.flag /\ ret.first = 2
    /\ View(elements_[1]) = <<(<<1, 0>>), (<<2, 0>>), (<<3, 0>>)>>

\* The other of the two objects.
Other(c) == CHOOSE d \in Objs : d # c

\* C12: swap(A, B) gives A the elements B had, in B's order, and B's flag,
\* and gives B those of A, whatever the two flags are; a second swap(A, B)
\* gives both back their elements and flags.
C12_SwapExchangesAndInvolutes ==
    /\ \A a \in Objs : \A o \in swap(This(a), This(Other(a))) :
          /\ o.left = This(Other(a)) /\ o.right = This(a)
          /\ \A o2 \in swap(o.left, o.right) :
                o2.left = This(a) /\ o2.right = This(Other(a))
    /\ op.name = "swap" =>
          /\ sorted_[op.obj] = pre.rsorted /\ sorted_[Other(op.obj)] = pre.sorted
          /\ Len(elements_[op.obj]) = pre.rsize
          /\ Len(elements_[Other(op.obj)]) = pre.size

\* C12 witness: swap has given a Dirty container of two elements to an
\* object that was Sorted with one, and the reverse.
C12_Witness ==
    /\ op.name = "swap" /\ op.obj = 1
    /\ pre.sorted /\ pre.size = 1 /\ ~pre.rsorted /\ pre.rsize = 2
    /\ ~sorted_[1] /\ Len(elements_[1]) = 2 /\ sorted_[2] /\ Len(elements_[2]) = 1

RECURSIVE insert_each(_, _)
\* insert(value) for each value of rng in turn, from the containers cs.
insert_each(cs, rng) ==
    IF rng = <<>> THEN cs
    ELSE insert_each(UNION {{Cont(o.elements, o.sorted) : o \in insert(c, rng[1][1], rng[1][2])}
                            : c \in cs},
                     Tail(rng))

\* The containers a default-constructed one becomes when the range rng is
\* inserted in it, as a range or value by value, and it is resorted.
Refilled(rng) ==
    LET fresh == Cont(<<>>, TRUE)
        filled == {Cont(o.elements, o.sorted) : o \in insert_range(fresh, rng)}
                      \cup insert_each({fresh}, rng)
    IN  UNION {{Cont(r.elements, r.sorted) : r \in sort(d)} : d \in filled}

\* C13: for every container C, a fresh container filled with the elements
\* of C's sorted iteration, one by one or as a range, and resorted, compares
\* equal to C and holds the same values at every position.
C13_RoundTrip ==
    /\ \A c \in Objs : \A s \in sort_if_needed(This(c)) :
       \A d \in Refilled(View(s.elements)) :
       \A e \in operator_eq(d, s) :
          e.ret.flag /\ View(e.left.elements) = View(s.elements)
    /\ (op.name = "insert_from" /\ pre.size = 0) =>
          \A r \in sort(This(op.obj)) :
          \A e \in operator_eq(Cont(r.elements, r.sorted), This(Other(op.obj))) :
             e.ret.flag

\* C13 witness: an empty multimap has been filled from the iteration of a
\* Dirty one that holds two values under one key.
C13_Witness ==
    /\ Multi /\ IsMap /\ op.name = "insert_from" /\ op.obj = 2
    /\ pre.size = 0 /\ ~pre.rsorted /\ pre.rsize = 2
    /\ Len(elements_[2]) = 2 /\ ~sorted_[2] /\ sorted_[1]
    /\ elements_[2][1].first = elements_[2][2].first
    /\ elements_[2][1].second # elements_[2][2].second

\* C20: operator== resorts both operands and returns true exactly when the
\* two sorted sequences have the same length and hold equal values (key
\* and, for maps, mapped value) at every position; both operands report
\* sorted() true afterwards.
C20_EqualityIsElementwise ==
    /\ \A a \in Objs : \A o \in operator_eq(This(a), This(Other(a))) :
          /\ o.left \in sort_if_needed(This(a))
          /\ o.right \in sort_if_needed(This(Other(a)))
          /\ o.left.sorted /\ o.right.sorted
          /\ IsOrdered(o.left.elements) /\ IsOrdered(o.right.elements)
          /\ o.ret.flag <=> View(o.left.elements) = View(o.right.elements)
    /\ op.name = "operator==" =>
          /\ \A c \in Objs : sorted_[c] /\ IsOrdered(elements_[c])
          /\ ret.flag <=> View(elements_[1]) = View(elements_[2])

\* C20 witness: operator== has returned false on two maps, both Dirty
\* before, that hold the same two keys and differ in one mapped value.
C20_Witness ==
    /\ IsMap /\ op.name = "operator==" /\ ~pre.sorted /\ ~pre.rsorted
    /\ pre.size = 2 /\ pre.rsize = 2 /\ ~ret.flag
    /\ Len(elements_[1]) = 2 /\ Len(elements_[2]) = 2
    /\ \A i \in 1..2 : elements_[1][i].first = elements_[2][i].first
    /\ elements_[1][1].first # elements_[1][2].first

\* The keys of rng go up: strictly for set and map, without going down for
\* multiset and multimap.
Increasing(rng) ==
    \A i \in 1..(Len(rng) - 1) :
        IF Multi THEN ~KCmp(rng[i + 1][1], rng[i][1]) ELSE KCmp(rng[i][1], rng[i + 1][1])

\* The containers reached from a default-constructed one by inserting the
\* first n values of rng one at a time.
Appended(rng, n) == insert_each({Cont(<<>>, TRUE)}, SubSeq(rng, 1, n))

\* C21: values whose keys go up (strictly for set and map), inserted one at
\* a time in an empty container, leave sorted() true after every insert and
\* the elements as inserted, and a later sort changes nothing.
C21_OrderedInsertsStaySorted ==
    /\ \A c \in Objs :
          LET rng == View(elements_[c])
          IN  Increasing(rng) =>
                 \A n \in 0..Len(rng) : \A d \in Appended(rng, n) :
                    /\ d.sorted
                    /\ View(d.elements) = SubSeq(rng, 1, n)
                    /\ sort_if_needed(d) = {d}
    /\ (op.name = "insert" /\ pre.sorted /\ Increasing(View(elements_[op.obj]))) =>
          sorted_[op.obj] /\ sort_if_needed(This(op.obj)) = {This(op.obj)}

\* C21 witness: a third insert has kept a container Sorted whose keys go up.
C21_Witness ==
    /\ op.name = "insert" /\ pre.sorted /\ pre.size = 2
    /\ Len(elements_[1]) = 3 /\ Increasing(View(elements_[1]))
    /\ sorted_[1]
    /\ Multi => elements_[1][2].first = elements_[1][3].first

\* C22: a default-constructed container is empty and sorted() is true; a
\* container constructed from a range or initializer list holds the source
\* in its order and sorted() is true exactly when the source has at most one
\* element, whatever the order of the source.
C22_ConstructedState ==
    /\ op.name = "ctor" =>
          \A c \in Objs :
             /\ elements_[c] = <<>> /\ sorted_[c]
             /\ \A e \in empty(This(c)) : e.ret.flag
             /\ \A f \in sorted(This(c)) : f.ret.flag
    /\ \A c \in Objs :
          LET rng == View(elements_[c])
          IN  \A o \in construct_range(rng) :
                 /\ View(o.elements) = rng
                 /\ o.sorted <=> Len(rng) <= 1
                 /\ \A f \in sorted(Cont(o.elements, o.sorted)) :
                       f.ret.flag <=> Len(rng) <= 1
    /\ op.name = "ctor_range" =>
          /\ Len(elements_[op.obj]) = op.key
          /\ sorted_[op.obj] <=> op.key <= 1

\* C22 witness: a container has been constructed Dirty from two elements
\* that are in key order.
C22_Witness ==
    /\ op.name = "ctor_range" /\ op.key = 2
    /\ Len(elements_[1]) = 2
    /\ KCmp(elements_[1][1].first, elements_[1][2].first)
    /\ ~sorted_[1]

\* C23: for set and map erase(key) returns 0 or 1 in every state, a Dirty
\* one that holds the key several times included.
C23_EraseKeyAtMostOne ==
    /\ ~Multi =>
          \A c \in Objs : \A k \in Keys : \A e \in erase_key(This(c), k) :
             /\ e.ret.first \in {0, 1}
             /\ e.ret.first = 1 <=> k \in KeySet(elements_[c])
    /\ (~Multi /\ op.name = "erase_key") => ret.first \in {0, 1}

\* C23 witness: erase(key) has returned 1 on a Dirty set or map that held
\* the key three times and nothing else.
C23_Witness ==
    /\ ~Multi /\ op.name = "erase_key" /\ ~pre.sorted /\ pre.size = 3
    /\ elements_[1] = <<>> /\ ret.first = 1

\* The key of the last element of a backing sequence that has one.
LastKey(es) == es[Len(es)].first

\* C24: insert or emplace of one value on a Sorted set or map that holds an
\* element leaves it Sorted exactly when the key of the element that was
\* last is less than the new key; a key equal to it leaves the container
\* Dirty.
C24_NonMultiInsertRule ==
    /\ ~Multi =>
          \A c \in Objs : (sorted_[c] /\ elements_[c] # <<>>) =>
             \A k \in Keys : \A v \in Mapped : \A o \in insert(This(c), k, v) :
                /\ o.sorted <=> KCmp(LastKey(elements_[c]), k)
                /\ KEq(LastKey(elements_[c]), k) => ~o.sorted
    /\ (~Multi /\ op.name = "insert" /\ pre.sorted /\ pre.size >= 1) =>
          LET es == elements_[op.obj]
          IN  sorted_[op.obj] <=> KCmp(es[pre.size].first, es[pre.size + 1].first)

\* C24 witness: the key that was last inserted again in a Sorted set or map
\* of two elements, which is Dirty now.
C24_Witness ==
    /\ ~Multi /\ op.name = "insert" /\ pre.sorted /\ pre.size = 2
    /\ Len(elements_[1]) = 3
    /\ KEq(elements_[1][2].first, elements_[1][3].first)
    /\ ~sorted_[1]

\* C25: insert or emplace of one value on a Sorted multiset or multimap that
\* holds an element leaves it Sorted exactly when the new key is not less
\* than the key of the element that was last; a key equal to it leaves the
\* container Sorted.
C25_MultiInsertRule ==
    /\ Multi =>
          \A c \in Objs : (sorted_[c] /\ elements_[c] # <<>>) =>
             \A k \in Keys : \A v \in Mapped : \A o \in insert(This(c), k, v) :
                /\ o.sorted <=> ~KCmp(k, LastKey(elements_[c]))
                /\ KEq(LastKey(elements_[c]), k) => o.sorted
    /\ (Multi /\ op.name = "insert" /\ pre.sorted /\ pre.size >= 1) =>
          LET es == elements_[op.obj]
          IN  sorted_[op.obj] <=> ~KCmp(es[pre.size + 1].first, es[pre.size].first)

\* C25 witness: the key that was last inserted again in a Sorted multiset
\* or multimap of two elements, which is still Sorted.
C25_Witness ==
    /\ Multi /\ op.name = "insert" /\ pre.sorted /\ pre.size = 2
    /\ Len(elements_[1]) = 3
    /\ KEq(elements_[1][2].first, elements_[1][3].first)
    /\ sorted_[1]

\* C26 as stated: insert or emplace of one value in a container that held
\* no element or one leaves sorted() true.
C26_SmallInsertLeavesSorted ==
    (op.name = "insert" /\ pre.size <= 1) => sorted_[op.obj]

\* C26 amended: insert or emplace of one value in a Sorted container that
\* held no element leaves it Sorted; in a Sorted container that held one
\* element it leaves it Sorted exactly when the new key keeps the order
\* (the key held is less than it, or for multiset and multimap not greater).
C26_SmallSortedInsert ==
    /\ \A c \in Objs : (sorted_[c] /\ Len(elements_[c]) <= 1) =>
          \A k \in Keys : \A v \in Mapped : \A o \in insert(This(c), k, v) :
             IF elements_[c] = <<>> THEN o.sorted
             ELSE o.sorted <=> IF Multi THEN ~KCmp(k, LastKey(elements_[c]))
                                        ELSE KCmp(LastKey(elements_[c]), k)
    /\ (op.name = "insert" /\ pre.sorted /\ pre.size = 0) => sorted_[op.obj]
    /\ (op.name = "insert" /\ pre.sorted /\ pre.size = 1) =>
          LET es == elements_[op.obj]
          IN  sorted_[op.obj] <=> IF Multi THEN ~KCmp(es[2].first, es[1].first)
                                            ELSE KCmp(es[1].first, es[2].first)

\* C26 witness: one value inserted in a Sorted container that was empty
\* after holding elements; the container is Sorted.
C26_Witness ==
    /\ op.name = "insert" /\ pre.sorted /\ pre.size = 0
    /\ Len(elements_[1]) = 1 /\ elements_[1][1].first = 2 /\ sorted_[1]

\* The calls after which the object called can be Sorted though it was
\* Dirty: the order-dependent ones, a bulk insert, the assignments, swap and
\* clear; and the constructors, after which the object is a new one.
MakeSorted ==
    OrderDependent \cup Comparisons \cup (IF Multi THEN {} ELSE {"size"})
        \cup {"insert_range", "assign_init", "copy_assign", "move_assign", "swap", "clear"}
        \cup {"ctor", "ctor_range", "copy_ctor", "move_ctor"}

\* A single insert leaves a Dirty container Dirty, and the object called is
\* Sorted after being Dirty only through a call of MakeSorted.
DirtyUntilMadeSorted ==
    /\ \A c \in Objs : ~sorted_[c] =>
          \A k \in Keys : \A v \in Mapped : \A o \in insert(This(c), k, v) : ~o.sorted
    /\ (op.name = "insert" /\ ~pre.sorted) => ~sorted_[op.obj]
    /\ (~pre.sorted /\ sorted_[op.obj]) => op.name \in MakeSorted
    /\ (op.name = "insert_range" /\ ~pre.sorted /\ sorted_[op.obj]) =>
          Len(elements_[op.obj]) <= 1

\* C27 as stated: a single insert or emplace leaves a Dirty container Dirty
\* whatever the key, the contents and the size; and a Dirty container is
\* made Sorted only by an order-dependent call, a bulk insert reaching at
\* most one element, an assignment, swap or clear.
C27_DirtyStaysDirtyUnlessListed ==
    /\ DirtyUntilMadeSorted
    /\ (~pre.rsorted /\ sorted_[Other(op.obj)]) =>
          op.name \in Comparisons \cup {"move_assign", "swap"}

\* C27 amended: the same, and a Dirty container is also made Sorted by
\* being the source of a move construction.
C27_DirtyStaysDirtyUnlessListedOrMovedFrom ==
    /\ DirtyUntilMadeSorted
    /\ (~pre.rsorted /\ sorted_[Other(op.obj)]) =>
          op.name \in Comparisons \cup {"move_assign", "swap", "move_ctor"}

\* C27 witness: one value inserted in a Dirty container that held no
\* element, which is Dirty still.
C27_Witness ==
    /\ op.name = "insert" /\ ~pre.sorted /\ pre.size = 0
    /\ Len(elements_[1]) = 1 /\ ~sorted_[1]

\* C28: insert of a range or initializer list leaves the elements held
\* before in their places, the range after them in its order, and sorted()
\* true exactly when the container then holds at most one element, whatever
\* the flag was and whatever the range is.
C28_BulkInsertRule ==
    /\ \A c \in Objs : \A rng \in Ranges(Keys, 2) : \A o \in insert_range(This(c), rng) :
          /\ View(o.elements) = View(elements_[c]) \o rng
          /\ o.sorted <=> Len(elements_[c]) + Len(rng) <= 1
    /\ op.name = "insert_range" =>
          /\ Len(elements_[op.obj]) = pre.size + op.key
          /\ sorted_[op.obj] <=> pre.size + op.key <= 1

\* C28 witness: an empty range inserted in a Sorted container of two
\* elements, which is Dirty now.
C28_Witness ==
    /\ op.name = "insert_range" /\ op.key = 0 /\ pre.sorted /\ pre.size = 2
    /\ Len(elements_[1]) = 2 /\ ~sorted_[1]

\* The flags the outcomes outs leave.
Flags(outs) == {o.sorted : o \in outs}

\* The flags the calls that keep a Sorted container Sorted leave on c.
FlagsOfKeepers(c) ==
    LET es == c.elements
    IN  UNION {Flags(erase_pos(c, p)) : p \in 1..Len(es)}
        \cup UNION {UNION {Flags(erase_range(c, f, l)) : l \in f..End(es)} : f \in 1..End(es)}
        \cup UNION {Flags(erase_key(c, k)) \cup Flags(find(c, k)) \cup Flags(count(c, k))
                    \cup Flags(lower_bound(c, k)) \cup Flags(upper_bound(c, k))
                    \cup Flags(equal_range(c, k)) : k \in Keys}
        \cup (IF IsNonMultiMap
              THEN UNION {Flags(at(c, k)) \cup Flags(operator_brackets_impl(c, k))
                          \cup UNION {Flags(insert_or_assign_impl(c, k, v))
                                      \cup Flags(try_emplace_impl(c, k, v)) : v \in Vals}
                          : k \in Keys}
              ELSE {})
        \cup Flags(clear(c)) \cup Flags(begin(c)) \cup Flags(end_(c))
        \cup Flags(sort(c)) \cup Flags(size(c)) \cup Flags(empty(c)) \cup Flags(sorted(c))

\* The calls on two objects.
PairCalls ==
    Comparisons \cup {"copy_ctor", "move_ctor", "copy_assign", "move_assign", "swap",
                      "insert_from"}

\* The last single insert put a key after one it may not follow.
BrokeOrder(c) ==
    LET es == elements_[c]
        n == Len(es)
    IN  n >= 2 /\ IF Multi THEN KCmp(es[n].first, es[n - 1].first)
                           ELSE ~KCmp(es[n - 1].first, es[n].first)

\* C29: an object that was Sorted is Dirty after a call only when the call
\* was a single insert that broke the order, a bulk insert, an assignment of
\* an initializer list, or a copy or move assignment or swap with a Dirty
\* container (or the construction of a new object in its place); erasures,
\* clear, lookups, at, operator[], insert_or_assign, try_emplace, sort, size,
\* empty and comparisons leave a Sorted container Sorted.
C29_SortedToDirtyOnlyByListed ==
    /\ (pre.sorted /\ ~sorted_[op.obj]) =>
          \/ op.name = "insert" /\ BrokeOrder(op.obj)
          \/ op.name \in {"insert_range", "insert_from", "assign_init", "ctor_range"}
          \/ op.name \in {"copy_assign", "move_assign", "swap", "copy_ctor", "move_ctor"}
                /\ ~pre.rsorted
    /\ (op.name \in PairCalls /\ pre.rsorted /\ ~sorted_[Other(op.obj)]) =>
          op.name = "swap" /\ ~pre.sorted
    /\ \A c \in Objs : sorted_[c] =>
          /\ FlagsOfKeepers(This(c)) = {TRUE}
          /\ \A o \in operator_eq(This(c), This(Other(c))) \cup
                      operator_less(This(c), This(Other(c))) :
                o.left.sorted /\ o.right.sorted

\* C29 witness: a Sorted container of two elements has been copy-assigned a
\* Dirty one and is Dirty now.
C29_Witness ==
    /\ op.name = "copy_assign" /\ pre.sorted /\ pre.size = 2 /\ ~pre.rsorted
    /\ ~sorted_[op.obj] /\ ~sorted_[Other(op.obj)]

\* C30: insert or emplace of one value leaves every element held before in
\* its place and puts the new one after them, whether the container is
\* Sorted or Dirty: nothing is sorted, moved or removed.
C30_InsertAppendsOnly ==
    /\ \A c \in Objs : \A k \in Keys : \A v \in Mapped : \A o \in insert(This(c), k, v) :
          LET n == Len(elements_[c])
          IN  /\ Len(o.elements) = n + 1
              /\ SubSeq(o.elements, 1, n) = elements_[c]
              /\ View(o.elements)[n + 1] = <<k, v>>
    /\ op.name = "insert" =>
          LET es == elements_[op.obj]
          IN  /\ Len(es) = pre.size + 1
              /\ View(es)[Len(es)] = <<op.key, op.val>>

\* C30 witness: one value inserted in a Dirty set or map of two elements
\* with the same key; the three are held as inserted.
C30_Witness ==
    /\ ~Multi /\ op.name = "insert" /\ ~pre.sorted /\ pre.size = 2
    /\ Len(elements_[1]) = 3
    /\ elements_[1][1].first = elements_[1][2].first
    /\ KCmp(elements_[1][3].first, elements_[1][1].first)

\* The calls that only observe: size() counts among them for multiset and
\* multimap.
Observers == {"sorted", "empty", "max_size"} \cup (IF Multi THEN {"size"} ELSE {})

\* The container outcomes of outs.
Conts(outs) == {Cont(o.elements, o.sorted) : o \in outs}

\* C31: sorted(), empty() and max_size(), and size() on multiset and
\* multimap, leave the backing sequence and the flag as they are, so a Dirty
\* container is Dirty after them; size() on multiset and multimap returns
\* the number of elements inserted less the number erased.
C31_ObserversChangeNothing ==
    /\ \A c \in Objs :
          /\ Conts(sorted(This(c))) \cup Conts(empty(This(c))) \cup Conts(max_size(This(c)))
                = {This(c)}
          /\ Multi =>
                /\ Conts(size(This(c))) = {This(c)}
                /\ \A o \in size(This(c)) : o.ret.first = Len(elements_[c])
    /\ op.name \in Observers =>
          sorted_[op.obj] = pre.sorted /\ Len(elements_[op.obj]) = pre.size
    /\ (Multi /\ op.name = "size") => ret.first = Len(ref)
    /\ op.name = "sorted" => ret.flag = pre.sorted
    /\ op.name = "empty" => ret.flag = (pre.size = 0)

\* C31 witness: size() has returned 3 on a Dirty multiset or multimap of
\* three elements out of order, which is Dirty still.
C31_Witness ==
    /\ Multi /\ op.name = "size" /\ ~pre.sorted /\ ret.first = 3
    /\ ~sorted_[1] /\ Len(elements_[1]) = 3
    /\ KCmp(elements_[1][2].first, elements_[1][1].first)

\* C32: erase(pos) and erase(first, last) leave the flag as it is, remove
\* the elements at the positions given and no other, leave the others in
\* their order, and return the position of the element that followed the
\* last one removed (end() when none did); a Dirty container is Dirty after
\* them, also when it holds one element or none.
C32_ErasePositionsOnly ==
    /\ \A c \in Objs :
          LET es == elements_[c]
          IN  \A first \in 1..End(es) : \A last \in first..End(es) :
                 /\ \A o \in erase_range(This(c), first, last) :
                       /\ o.sorted = sorted_[c]
                       /\ View(o.elements) =
                             View(SubSeq(es, 1, first - 1) \o SubSeq(es, last, Len(es)))
                       /\ o.ret.first = first
                       /\ IF last = End(es) THEN o.ret.first = End(o.elements)
                          ELSE View(o.elements)[o.ret.first] = View(es)[last]
                 /\ last = first + 1 =>
                       \A o \in erase_pos(This(c), first) :
                          /\ o.sorted = sorted_[c]
                          /\ View(o.elements) = View(Without(es, first))
                          /\ o.ret.first = first
    /\ op.name = "erase_pos" =>
          /\ sorted_[op.obj] = pre.sorted /\ ret.first = op.key
          /\ Len(elements_[op.obj]) = pre.size - 1
    /\ op.name = "erase_range" =>
          /\ sorted_[op.obj] = pre.sorted /\ ret.first = op.key
          /\ Len(elements_[op.obj]) = pre.size - (op.val - op.key)

\* C32 witness: erase(first, last) has removed the first of the two elements
\* of a Dirty container, which holds one element and is Dirty.
C32_Witness ==
    /\ op.name = "erase_range" /\ ~pre.sorted /\ pre.size = 2
    /\ op.key = 1 /\ op.val = 2
    /\ Len(elements_[1]) = 1 /\ ~sorted_[1]

\* The values (key and mapped value) a backing sequence holds.
Values(es) == {View(es)[i] : i \in 1..Len(es)}

\* C33: the resort of a set or map that holds several elements with one key
\* leaves one element for each key held, which is one of the elements held
\* with that key before; and each of them is the one left in some outcome of
\* the resort, whatever the order of insertion.
C33_ResortKeepsOnePerKey ==
    /\ ~Multi =>
          \A c \in Objs :
             /\ \A s \in internal_sort(This(c)) :
                   /\ DistinctKeys(s.elements) /\ IsOrdered(s.elements)
                   /\ KeySet(s.elements) = KeySet(elements_[c])
                   /\ Values(s.elements) \subseteq Values(elements_[c])
             /\ \A x \in Values(elements_[c]) :
                   \E s \in internal_sort(This(c)) : x \in Values(s.elements)
    /\ (~Multi /\ op.name = "sort") =>
          sorted_[op.obj] /\ DistinctKeys(elements_[op.obj])

\* C33 witness: sort() on a Dirty map that held one key three times, with
\* both mapped values, has left the element with mapped value 1.
C33_Witness ==
    /\ IsNonMultiMap /\ op.name = "sort" /\ ~pre.sorted /\ pre.size = 3
    /\ Len(elements_[1]) = 1 /\ elements_[1][1].second = 1 /\ sorted_[1]

\* How many times a backing sequence holds each of its values.
Multiplicity(es) ==
    [x \in Values(es) |-> Cardinality({i \in 1..Len(es) : View(es)[i] = x})]

\* C34: a resort leaves the set of keys held as it is: for multiset and
\* multimap it leaves the same values as many times each, for set and map it
\* adds no value and removes one only when it leaves another with an equal
\* key.
C34_ResortKeepsKeys ==
    /\ \A c \in Objs : \A s \in internal_sort(This(c)) :
          /\ KeySet(s.elements) = KeySet(elements_[c])
          /\ Multi => Multiplicity(s.elements) = Multiplicity(elements_[c])
          /\ ~Multi =>
                /\ Values(s.elements) \subseteq Values(elements_[c])
                /\ \A x \in Values(s.elements) :
                      Multiplicity(s.elements)[x] <= Multiplicity(elements_[c])[x]
                /\ \A x \in Values(elements_[c]) \ Values(s.elements) :
                      \E y \in Values(s.elements) : KEq(y[1], x[1])
    /\ (Multi /\ op.name = "sort") => Len(elements_[op.obj]) = pre.size

\* C34 witness: sort() has resorted a Dirty multiset or multimap of three
\* elements, two of them with one key, and it holds the three.
C34_Witness ==
    /\ Multi /\ op.name = "sort" /\ ~pre.sorted /\ pre.size = 3
    /\ Len(elements_[1]) = 3 /\ sorted_[1]
    /\ elements_[1][1].first = elements_[1][2].first
    /\ elements_[1][2].first # elements_[1][3].first

\* The calls that insert one value without looking where.
Blind == {"insert_hint", "emplace_hint", "inserter_assign"}

\* The containers one value <<k, v>> appended to c gives: the elements of c
\* as they are, the value after them, and the flag of the single insert.
AppendedTo(c, k, v) ==
    {d \in Conts(insert(c, k, v)) :
        /\ View(d.elements) = Append(View(c.elements), <<k, v>>)
        /\ SubSeq(d.elements, 1, Len(c.elements)) = c.elements
        /\ d.sorted <=>
              /\ c.sorted
              /\ c.elements # <<>> =>
                    IF Multi THEN ~KCmp(k, LastKey(c.elements))
                             ELSE KCmp(LastKey(c.elements), k)}

\* C35: insert(hint, value), emplace_hint(hint, ...) and the assignment
\* through the insert adapter leave, for every hint, the backing sequence
\* and flag the plain insert of the value leaves: the elements as they were
\* and the value after them; dereferencing and incrementing the adapter
\* leave the container as it is.
C35_BlindInsertIsPlainInsert ==
    /\ \A c \in Objs : \A k \in Keys : \A v \in Mapped :
          /\ \A hint \in 1..End(elements_[c]) :
                /\ Conts(insert_hint(This(c), hint, k, v)) = AppendedTo(This(c), k, v)
                /\ Conts(emplace_hint(This(c), hint, k, v)) = AppendedTo(This(c), k, v)
          /\ Conts(inserter_assign(This(c), k, v)) = AppendedTo(This(c), k, v)
          /\ AppendedTo(This(c), k, v) = Conts(insert(This(c), k, v))
    /\ \A c \in Objs : Conts(inserter_noop(This(c))) = {This(c)}
    /\ op.name \in Blind =>
          LET es == elements_[op.obj]
          IN  /\ Len(es) = pre.size + 1
              /\ View(es)[Len(es)] = <<op.key, op.val>>
              /\ sorted_[op.obj] <=> (pre.sorted /\ ~BrokeOrder(op.obj))
    /\ op.name \in {"inserter_deref", "inserter_increment"} =>
          sorted_[op.obj] = pre.sorted /\ Len(elements_[op.obj]) = pre.size

\* C35 witness: insert(hint, value) on a Sorted container of two elements
\* has put a key smaller than both after them and left it Dirty.
C35_Witness ==
    /\ op.name = "insert_hint" /\ pre.sorted /\ pre.size = 2
    /\ Len(elements_[1]) = 3 /\ ~sorted_[1]
    /\ KCmp(elements_[1][3].first, elements_[1][1].first)
    /\ KCmp(elements_[1][1].first, elements_[1][2].first)

\* x before y in the order of the values: operator< of the key, or of the
\* pair of key and mapped value.
PairLess(x, y) == x[1] < y[1] \/ (x[1] = y[1] /\ x[2] < y[2])

\* l before r in the lexicographic order of sequences of values.
LexLess(l, r) ==
    \E i \in 1..(Len(l) + 1) :
        /\ i <= Len(r)
        /\ SubSeq(l, 1, i - 1) = SubSeq(r, 1, i - 1)
        /\ i <= Len(l) => PairLess(l[i], r[i])

\* Both containers are as a resort leaves them: flagged and in order.
BothSorted(l, r) ==
    l.sorted /\ r.sorted /\ IsOrdered(l.elements) /\ IsOrdered(r.elements)

\* C36: for two containers a and b in any state, a < b is the lexicographic
\* comparison of their sorted sequences under the order of the values, and
\* a <= b is !(b < a), a > b is b < a, a >= b is !(a < b), a != b is
\* !(a == b), each on the sorted sequences the call leaves.
C36_OrderingOperatorsConsistent ==
    /\ \A a \in Objs :
          LET A == This(a)
              B == This(Other(a))
          IN  /\ \A o \in operator_less(A, B) :
                    /\ BothSorted(o.left, o.right)
                    /\ o.left \in sort_if_needed(A) /\ o.right \in sort_if_needed(B)
                    /\ o.ret.flag <=> LexLess(View(o.left.elements), View(o.right.elements))
              /\ \A o \in operator_le(A, B) :
                    /\ BothSorted(o.left, o.right)
                    /\ o.left \in sort_if_needed(A) /\ o.right \in sort_if_needed(B)
                    /\ \A p \in operator_less(o.right, o.left) : o.ret.flag <=> ~p.ret.flag
                    /\ o.ret.flag <=> ~LexLess(View(o.right.elements), View(o.left.elements))
              /\ \A o \in operator_gt(A, B) :
                    /\ BothSorted(o.left, o.right)
                    /\ o.left \in sort_if_needed(A) /\ o.right \in sort_if_needed(B)
                    /\ \A p \in operator_less(o.right, o.left) : o.ret.flag <=> p.ret.flag
              /\ \A o \in operator_ge(A, B) :
                    /\ BothSorted(o.left, o.right)
                    /\ o.left \in sort_if_needed(A) /\ o.right \in sort_if_needed(B)
                    /\ \A p \in operator_less(o.left, o.right) : o.ret.flag <=> ~p.ret.flag
              /\ \A o \in operator_ne(A, B) :
                    /\ BothSorted(o.left, o.right)
                    /\ \A p \in operator_eq(o.left, o.right) : o.ret.flag <=> ~p.ret.flag
                    /\ o.ret.flag <=> View(o.left.elements) # View(o.right.elements)
    /\ op.name \in {"operator<", "operator<=", "operator>", "operator>=", "operator!="} =>
          LET l == View(elements_[op.obj])
              r == View(elements_[Other(op.obj)])
          IN  /\ BothSorted(This(1), This(2))
              /\ ret.flag <=> CASE op.name = "operator<" -> LexLess(l, r)
                                [] op.name = "operator<=" -> ~LexLess(r, l)
                                [] op.name = "operator>" -> LexLess(r, l)
                                [] op.name = "operator>=" -> ~LexLess(l, r)
                                [] OTHER -> l # r

\* C36 witness: a <= b has returned true on two containers that were both
\* Dirty with two elements and hold the same two values.
C36_Witness ==
    /\ op.name = "operator<=" /\ ~pre.sorted /\ ~pre.rsorted
    /\ pre.size = 2 /\ pre.rsize = 2 /\ ret.flag
    /\ Len(elements_[1]) = 2 /\ View(elements_[1]) = View(elements_[2])

\* The destination d and source s of a move of the container src: d holds
\* what src held, in the same places and under the flag of src, and so
\* compares equal to a copy of src taken before (two equal sequences are
\* resorted alike by one std::sort; the comparison is made where the resort
\* has one outcome); s is empty with sorted() true.
Transferred(d, s, src) ==
    /\ d.sorted = src.sorted
    /\ View(d.elements) = View(src.elements)
    /\ \A cp \in copy_construct(src) :
          /\ cp.left = src
          /\ Cardinality(sort_if_needed(src)) = 1 =>
                \A e \in operator_eq(d, cp.left) : e.ret.flag
    /\ s.elements = <<>>
    /\ \A f \in sorted(s) : f.ret.flag

\* C37: move construction and move assignment give the destination the
\* elements and the flag of the source (it compares equal to a copy of the
\* source taken before, and is Dirty exactly when the source was) and leave
\* the source empty with sorted() true; the container moved from satisfies
\* the sortedness invariant, also when it is assigned to itself.
C37_MoveTransfersAndLeavesSourceSound ==
    /\ \A a \in Objs :
          /\ \A o \in move_construct(This(a)) : Transferred(o.left, o.right, This(a))
          /\ \A o \in move_assign(This(Other(a)), This(a)) :
                Transferred(o.left, o.right, This(a))
    /\ op.name \in {"move_ctor", "move_assign"} =>
          /\ sorted_[op.obj] = pre.rsorted /\ Len(elements_[op.obj]) = pre.rsize
          /\ elements_[Other(op.obj)] = <<>> /\ sorted_[Other(op.obj)]
          /\ FlagSound(Other(op.obj))
    /\ op.name = "move_assign_self" => sorted_[op.obj] /\ FlagSound(op.obj)

\* C38: for set and map empty(), which does not sort, returns true exactly
\* when size(), which resorts and removes duplicates, returns 0, in every
\* state, a Dirty one that holds a key several times included.
C38_EmptyAgreesWithSize ==
    /\ ~Multi =>
          \A c \in Objs : \A e \in empty(This(c)) : \A n \in size(This(c)) :
             /\ e.ret.flag <=> n.ret.first = 0
             /\ n.ret.first = 0 <=> elements_[c] = <<>>
    /\ (~Multi /\ op.name = "empty") => (ret.flag <=> Len(ref) = 0)
    /\ (~Multi /\ op.name = "size") =>
          /\ ret.first = Len(ref)
          /\ ret.first = 0 <=> pre.size = 0

\* C38 witness: size() has returned 1 on a set or map that was Dirty and
\* held one key three times.
C38_Witness ==
    /\ ~Multi /\ op.name = "size" /\ ~pre.sorted /\ pre.size = 3
    /\ ret.first = 1 /\ Len(elements_[1]) = 1 /\ Len(ref) = 1

\* The values a backing sequence holds under the key k, in their order,
\* which for multiset and multimap is the order of their insertion.
PerKey(es, k) == SelectSeq(View(es), LAMBDA x : x[1] = k)

\* The two containers hold the same values as many times each.
SameValues == Multiplicity(elements_[1]) = Multiplicity(elements_[2])

\* What decides operator== on the two containers: for multimap and
\* multiset the values held under each key and their order of insertion,
\* for set the keys held.
SameByInsertion ==
    IF Multi THEN \A k \in Keys : PerKey(elements_[1], k) = PerKey(elements_[2], k)
    ELSE KeySet(elements_[1]) = KeySet(elements_[2])

\* C39: two multimaps that hold the same key/value pairs compare equal
\* exactly when, for every key, the pairs with that key were inserted in the
\* same relative order in both; two sets or multisets compare equal exactly
\* when they hold the same keys (as many times each), whatever the order of
\* insertion.
C39_EqualityAndInsertionOrder ==
    /\ (Multi /\ IsMap /\ SameValues) =>
          \A o \in operator_eq(This(1), This(2)) \cup operator_eq(This(2), This(1)) :
             o.ret.flag <=> SameByInsertion
    /\ ~IsMap =>
          \A o \in operator_eq(This(1), This(2)) \cup operator_eq(This(2), This(1)) :
             /\ o.ret.flag <=> SameByInsertion
             /\ o.ret.flag <=> IF Multi THEN SameValues
                                        ELSE Values(elements_[1]) = Values(elements_[2])
    /\ (op.name = "operator==" /\ (Multi \/ ~IsMap)) =>
          /\ ret.flag <=> SameByInsertion
          /\ (~IsMap /\ Multi) => (ret.flag <=> SameValues)

\* C39 witness: operator== has returned false on two multimaps that hold
\* the same two pairs under one key, inserted in the opposite order.
C39_Witness ==
    /\ Multi /\ IsMap /\ op.name = "operator==" /\ ~ret.flag
    /\ pre.size = 2 /\ pre.rsize = 2 /\ SameValues
    /\ elements_[1][1].first = elements_[1][2].first
    /\ elements_[1][1].second # elements_[1][2].second

====
